---------------------------- MODULE Spec2Model ----------------------------
(***************************************************************************)
(* A model of the rust-lox tree-walking interpreter: the runtime values    *)
(* (literal.rs), the chain of environment frames (environment.rs) and the  *)
(* evaluator (interpreter.rs).                                             *)
(*                                                                         *)
(* Two specifications are given.  Spec drives Interpreter::execute at top   *)
(* level on statements drawn from finite families of syntax trees; execute *)
(* and evaluate are recursive operators that thread the interpreter's      *)
(* state through every call.  SpecEnv follows the interpreter into nested  *)
(* blocks: it grows a chain of frames and calls the operations of          *)
(* Environment and the evaluator on it.                                    *)
(***************************************************************************)
EXTENDS Integers, Sequences, FiniteSets, TLC

VARIABLES
    frames,       \* the Environment frames alive, in creation order
    environment,  \* index in frames of the current (innermost) frame
    call,         \* the operation that has just returned, with its arguments
    result,       \* what that operation returned
    printed       \* the values written by println! during that operation

vars == <<frames, environment, call, result, printed>>

(***************************************************************************)
(* Bounds of the model.                                                    *)
(***************************************************************************)
\* deepest chain of frames built by enclosed in SpecEnv
MaxDepth == 3
\* iterations of one while loop followed before the run is left aside
MaxIter == 3

(***************************************************************************)
(* literal.rs: runtime values.  A Number is an f64; the model keeps it as  *)
(* a fraction num/den in lowest terms with den > 0, and keeps the IEEE     *)
(* results of a division by zero as den = 0: num = 1 is +inf, num = -1 is  *)
(* -inf, num = 0 is NaN.  Rounding and the sign of zero are not modelled.  *)
(***************************************************************************)
Nil == [type |-> "Nil"]

Boolean(b) == [type |-> "Boolean", b |-> b]

String(s) == [type |-> "String", s |-> s]

Abs(n) == IF n < 0 THEN -n ELSE n

Sign(n) == IF n < 0 THEN -1 ELSE IF n > 0 THEN 1 ELSE 0

RECURSIVE Gcd(_, _)
Gcd(a, b) == IF b = 0 THEN a ELSE Gcd(b, a % b)

\* the f64 that the fraction n/d denotes, d of either sign or zero
Fraction(n, d) ==
    IF d = 0
    THEN [type |-> "Number", num |-> Sign(n), den |-> 0]
    ELSE LET g == Gcd(Abs(n), Abs(d))
         IN  [type |-> "Number", num |-> (Sign(d) * n) \div g, den |-> Abs(d) \div g]

Number(n) == Fraction(n, 1)

NaN == Fraction(0, 0)

IsNaN(x) == x.den = 0 /\ x.num = 0

IsInf(x) == x.den = 0 /\ x.num # 0

\* Function::Native { arity, body }: the function is known by its name
NativeFunction(name, arity) ==
    [type |-> "Function", native |-> TRUE, name |-> name, arity |-> arity]

\* truthiness with the number zero and the empty string falsy as well
is_truthy_zero_falsy(v) ==
    CASE v.type = "Nil" -> FALSE
      [] v.type = "Boolean" /\ v.b = FALSE -> FALSE
      [] v.type = "Number" /\ v.num = 0 /\ v.den = 1 -> FALSE
      [] v.type = "String" /\ v.s = "" -> FALSE
      [] OTHER -> TRUE

is_truthy(v) ==
    CASE v.type = "Nil" -> FALSE
      [] v.type = "Boolean" /\ v.b = FALSE -> FALSE
      [] OTHER -> TRUE

\* f64 == f64: NaN equals nothing, not even itself
NumberEq(x, y) == ~IsNaN(x) /\ ~IsNaN(y) /\ x = y

\* impl PartialEq for Literal
LiteralEq(l, r) ==
    CASE l.type = "String" /\ r.type = "String" -> l.s = r.s
      [] l.type = "Number" /\ r.type = "Number" -> NumberEq(l, r)
      [] l.type = "Boolean" /\ r.type = "Boolean" -> l.b = r.b
      [] l.type = "Nil" /\ r.type = "Nil" -> TRUE
      [] OTHER -> FALSE

(***************************************************************************)
(* f64 arithmetic on the fractions.                                        *)
(***************************************************************************)
NumAdd(x, y) ==
    IF IsNaN(x) \/ IsNaN(y) THEN NaN
    ELSE IF IsInf(x) /\ IsInf(y) THEN (IF x.num = y.num THEN x ELSE NaN)
    ELSE IF IsInf(x) THEN x
    ELSE IF IsInf(y) THEN y
    ELSE Fraction(x.num * y.den + y.num * x.den, x.den * y.den)

NumNeg(x) == [type |-> "Number", num |-> -x.num, den |-> x.den]

NumSub(x, y) == NumAdd(x, NumNeg(y))

NumMul(x, y) ==
    IF IsNaN(x) \/ IsNaN(y) THEN NaN
    ELSE IF IsInf(x) \/ IsInf(y) THEN Fraction(Sign(x.num) * Sign(y.num), 0)
    ELSE Fraction(x.num * y.num, x.den * y.den)

NumDiv(x, y) ==
    IF IsNaN(x) \/ IsNaN(y) THEN NaN
    ELSE IF IsInf(x) /\ IsInf(y) THEN NaN
    ELSE IF IsInf(x) THEN Fraction(x.num * (IF y.num < 0 THEN -1 ELSE 1), 0)
    ELSE IF IsInf(y) THEN Number(0)
    ELSE Fraction(x.num * y.den, x.den * y.num)

NumLess(x, y) ==
    IF IsNaN(x) \/ IsNaN(y) THEN FALSE
    ELSE IF x = y THEN FALSE
    ELSE IF IsInf(x) THEN x.num < 0
    ELSE IF IsInf(y) THEN y.num > 0
    ELSE x.num * y.den < y.num * x.den

(***************************************************************************)
(* token.rs is not part of the sources; a Token is the record the other    *)
(* files build and read: { token_type, lexeme, line }.                     *)
(***************************************************************************)
Token(token_type, lexeme, line) ==
    [token_type |-> token_type, lexeme |-> lexeme, line |-> line]

Identifier(name) == Token("Identifier", name, 1)

(***************************************************************************)
(* environment.rs: a frame is { values, enclosing }; enclosing = 0 is None.*)
(***************************************************************************)
NoValues == [n \in {} |-> Nil]

\* Environment::new
new == [values |-> NoValues, enclosing |-> 0]

\* Environment::enclosed: an empty frame whose enclosing frame is e
enclosed(e) == [values |-> NoValues, enclosing |-> e]

\* HashMap::insert
Insert(values, name, value) ==
    [n \in DOMAIN values \cup {name} |-> IF n = name THEN value ELSE values[n]]

Some(v) == [tag |-> "Some", value |-> v]

None == [tag |-> "None"]

Bool(b) == [tag |-> "Bool", b |-> b]

Unit == [tag |-> "Unit"]

\* define that writes to the frame around e when there is one, as a language
\* without block scope would
define_in_enclosing(fs, e, name, value) ==
    IF fs[e].enclosing = 0
    THEN [fs EXCEPT ![e].values = Insert(@, name, value)]
    ELSE [fs EXCEPT ![fs[e].enclosing].values = Insert(@, name, value)]

\* Environment::define on frame e of fs: the frames afterwards
define(fs, e, name, value) ==
    [fs EXCEPT ![e].values = Insert(@, name, value)]

\* assign that keeps walking outwards after the first hit and overwrites
\* every binding of the name in the chain
RECURSIVE assign_all(_, _, _, _)
assign_all(fs, e, name, value) ==
    LET here == name \in DOMAIN fs[e].values
        fs1 == IF here THEN [fs EXCEPT ![e].values = Insert(@, name, value)] ELSE fs
    IN  IF fs[e].enclosing = 0
        THEN [frames |-> fs1, found |-> here]
        ELSE LET r == assign_all(fs1, fs[e].enclosing, name, value)
             IN  [frames |-> r.frames, found |-> here \/ r.found]

\* Environment::assign on frame e of fs: the frames afterwards and the bool
\* returned
RECURSIVE assign(_, _, _, _)
assign(fs, e, name, value) ==
    IF name \in DOMAIN fs[e].values
    THEN [frames |-> [fs EXCEPT ![e].values = Insert(@, name, value)], found |-> TRUE]
    ELSE IF fs[e].enclosing = 0
         THEN [frames |-> fs, found |-> FALSE]
         ELSE assign(fs, fs[e].enclosing, name, value)

\* Environment::get: the frame's own map only
get(fs, e, name) ==
    IF name \in DOMAIN fs[e].values THEN Some(fs[e].values[name]) ELSE None

\* Environment::fetch: the frame's own map, then get on the enclosing frame
fetch(fs, e, name) ==
    IF name \in DOMAIN fs[e].values
    THEN Some(fs[e].values[name])
    ELSE IF fs[e].enclosing = 0
         THEN None
         ELSE get(fs, fs[e].enclosing, name)


(***************************************************************************)
(* errors.rs and interpreter.rs: EvaluationResult = Result<Literal,        *)
(* LoxError>, and LoxError { token, kind, line } with line = token.line.   *)
(***************************************************************************)
Ok(v) == [tag |-> "Ok", value |-> v]

\* LoxError::new(token, RuntimeError, detail)
Err(token, detail) ==
    [tag |-> "Err", token |-> token, kind |-> "RuntimeError",
     detail |-> detail, line |-> token.line]

\* a panic!() arm: the process aborts
Panic == [tag |-> "Panic"]

\* a while loop that is still running after MaxIter iterations
Unfinished == [tag |-> "Unfinished"]

\* the interpreter's state after a call, and what the call returned
R(st, res) == [st |-> st, res |-> res]

(***************************************************************************)
(* expr.rs and stmt.rs: the syntax trees.                                  *)
(***************************************************************************)
Literal(value) == [kind |-> "Literal", value |-> value]

Grouping(expr) == [kind |-> "Grouping", expr |-> expr]

Unary(operator, right) == [kind |-> "Unary", operator |-> operator, right |-> right]

Binary(left, operator, right) ==
    [kind |-> "Binary", left |-> left, operator |-> operator, right |-> right]

Logical(left, operator, right) ==
    [kind |-> "Logical", left |-> left, operator |-> operator, right |-> right]

Var(identifier) == [kind |-> "Var", identifier |-> identifier]

Assign(identifier, expr) == [kind |-> "Assign", identifier |-> identifier, expr |-> expr]

Call(callee, paren, arguments) ==
    [kind |-> "Call", callee |-> callee, paren |-> paren, arguments |-> arguments]

PrintStmt(expr) == [kind |-> "Print", expr |-> expr]

Expression(expr) == [kind |-> "Expression", expr |-> expr]

\* Stmt::Var(identifier, initializer): initializer is Some(expr) or None
VarStmt(identifier, initializer) ==
    [kind |-> "VarStmt", identifier |-> identifier, initializer |-> initializer]

Block(statements) == [kind |-> "Block", statements |-> statements]

\* Stmt::If(condition, then_branch, else_branch): else_branch is Some(stmt) or None
If(condition, then_branch, else_branch) ==
    [kind |-> "If", condition |-> condition, then_branch |-> then_branch,
     else_branch |-> else_branch]

While(condition, body) == [kind |-> "While", condition |-> condition, body |-> body]

(***************************************************************************)
(* interpreter.rs.  The state threaded through the calls is the record     *)
(* [frames, environment, printed, now]: now is the reading of the system   *)
(* clock that the native function clock returns.                           *)
(***************************************************************************)
\* Interpreter.globals: the frame made first by Interpreter::new
globals == 1

\* dropping an Rc: the frames no longer reachable from globals or from the
\* current frame e are freed; a frame only refers to frames made before it
Release(fs, e) == SubSeq(fs, 1, IF e > globals THEN e ELSE globals)

\* println!("{}", value)
Println(st, value) == [st EXCEPT !.printed = Append(@, value)]

\* arithmetic that yields NaN on operands that are not numbers
evaluate_arithmetic_lenient(operator, left, right) ==
    IF left.type = "Number" /\ right.type = "Number"
    THEN CASE operator.token_type = "Plus" -> Ok(NumAdd(left, right))
           [] operator.token_type = "Minus" -> Ok(NumSub(left, right))
           [] operator.token_type = "Slash" -> Ok(NumDiv(left, right))
           [] operator.token_type = "Star" -> Ok(NumMul(left, right))
           [] OTHER -> Panic
    ELSE Ok(NaN)

evaluate_arithmetic(operator, left, right) ==
    IF left.type = "Number" /\ right.type = "Number"
    THEN CASE operator.token_type = "Plus" -> Ok(NumAdd(left, right))
           [] operator.token_type = "Minus" -> Ok(NumSub(left, right))
           [] operator.token_type = "Slash" -> Ok(NumDiv(left, right))
           [] operator.token_type = "Star" -> Ok(NumMul(left, right))
           [] OTHER -> Panic
    ELSE Err(operator, "ExpectedNumber")

evaluate_comparison(operator, left, right) ==
    IF left.type = "Number" /\ right.type = "Number"
    THEN CASE operator.token_type = "Less" -> Ok(Boolean(NumLess(left, right)))
           [] operator.token_type = "LessEqual" ->
                Ok(Boolean(NumLess(left, right) \/ NumberEq(left, right)))
           [] operator.token_type = "Greater" -> Ok(Boolean(NumLess(right, left)))
           [] operator.token_type = "GreaterEqual" ->
                Ok(Boolean(NumLess(right, left) \/ NumberEq(left, right)))
           [] OTHER -> Panic
    ELSE Err(operator, "ExpectedNumber")

\* Function::arity
arity(fun) == fun.arity

\* Function::call, the Native arm: Ok(body(arguments)); the body of clock
\* returns the seconds since the epoch
call_function(fun, st, arguments) == R(st, Ok(st.now))

RECURSIVE evaluate(_, _), execute(_, _), evaluate_arguments(_, _, _, _),
          execute_statements(_, _, _, _), while_loop(_, _, _, _)

evaluate_var(identifier, st) ==
    LET found == fetch(st.frames, st.environment, identifier.lexeme)
    IN  IF found.tag = "Some"
        THEN R(st, Ok(found.value))
        ELSE R(st, Err(identifier, "UndeclaredIdentifier"))

\* the loop of evaluate_call over the arguments: args holds the values of the
\* arguments before the i-th; the first error ends the call
evaluate_arguments(arguments, i, args, st) ==
    IF i > Len(arguments)
    THEN [st |-> st, res |-> Ok(Nil), args |-> args]
    ELSE LET a == evaluate(arguments[i], st)
         IN  IF a.res.tag # "Ok"
             THEN [st |-> a.st, res |-> a.res, args |-> args]
             ELSE evaluate_arguments(arguments, i + 1, Append(args, a.res.value), a.st)

\* a call that checks the callee before it evaluates the arguments
evaluate_call_checking_first(callee, paren, arguments, st) ==
    LET c == evaluate(callee, st)
    IN  IF c.res.tag # "Ok"
        THEN c
        ELSE IF c.res.value.type # "Function"
             THEN R(c.st, Err(paren, "NotCallable"))
             ELSE IF arity(c.res.value) # Len(arguments)
                  THEN R(c.st, Err(paren, "InvalidArity"))
                  ELSE LET a == evaluate_arguments(arguments, 1, <<>>, c.st)
                       IN  IF a.res.tag # "Ok"
                           THEN R(a.st, a.res)
                           ELSE call_function(c.res.value, a.st, a.args)

evaluate_call(callee, paren, arguments, st) ==
    LET c == evaluate(callee, st)
    IN  IF c.res.tag # "Ok"
        THEN c
        ELSE LET a == evaluate_arguments(arguments, 1, <<>>, c.st)
             IN  IF a.res.tag # "Ok"
                 THEN R(a.st, a.res)
                 ELSE IF c.res.value.type = "Function"
                      THEN IF arity(c.res.value) # Len(a.args)
                           THEN R(a.st, Err(paren, "InvalidArity"))
                           ELSE call_function(c.res.value, a.st, a.args)
                      ELSE R(a.st, Err(paren, "NotCallable"))

\* a logical operator that evaluates both operands before it chooses
evaluate_logical_eager(left, operator, right, st) ==
    LET l == evaluate(left, st)
    IN  IF l.res.tag # "Ok"
        THEN l
        ELSE LET r == evaluate(right, l.st)
             IN  IF r.res.tag # "Ok"
                 THEN r
                 ELSE IF operator.token_type = "Or"
                      THEN IF is_truthy(l.res.value) THEN R(r.st, l.res) ELSE r
                      ELSE IF ~is_truthy(l.res.value) THEN R(r.st, l.res) ELSE r

evaluate_logical(left, operator, right, st) ==
    LET l == evaluate(left, st)
    IN  IF l.res.tag # "Ok"
        THEN l
        ELSE IF operator.token_type = "Or"
             THEN IF is_truthy(l.res.value) THEN l ELSE evaluate(right, l.st)
             ELSE IF ~is_truthy(l.res.value) THEN l ELSE evaluate(right, l.st)

\* an assignment that declares the name in the current frame when no frame
\* of the chain binds it
evaluate_assignment_declaring(identifier, expr, st) ==
    LET v == evaluate(expr, st)
    IN  IF v.res.tag # "Ok"
        THEN v
        ELSE LET a == assign(v.st.frames, v.st.environment, identifier.lexeme, v.res.value)
             IN  IF a.found
                 THEN R([v.st EXCEPT !.frames = a.frames], Ok(v.res.value))
                 ELSE R([v.st EXCEPT !.frames = define(@, v.st.environment,
                                                       identifier.lexeme, v.res.value)],
                        Ok(v.res.value))

evaluate_assignment(identifier, expr, st) ==
    LET v == evaluate(expr, st)
    IN  IF v.res.tag # "Ok"
        THEN v
        ELSE LET a == assign(v.st.frames, v.st.environment, identifier.lexeme, v.res.value)
             IN  IF a.found
                 THEN R([v.st EXCEPT !.frames = a.frames], Ok(v.res.value))
                 ELSE R(v.st, Err(identifier, "UndeclaredIdentifier"))

evaluate_unary_expression(operator, right, st) ==
    LET r == evaluate(right, st)
    IN  IF r.res.tag # "Ok"
        THEN r
        ELSE CASE operator.token_type = "Minus" ->
                    IF r.res.value.type = "Number"
                    THEN R(r.st, Ok(NumNeg(r.res.value)))
                    ELSE R(r.st, Err(operator, "ExpectedNumber"))
               [] operator.token_type = "Bang" ->
                    R(r.st, Ok(Boolean(is_truthy(r.res.value))))
               [] OTHER -> R(r.st, Panic)

evaluate_binary_expression(left, operator, right, st) ==
    LET l == evaluate(left, st)
    IN  IF l.res.tag # "Ok"
        THEN l
        ELSE LET r == evaluate(right, l.st)
                 lv == l.res.value
                 rv == r.res.value
                 t == operator.token_type
             IN  IF r.res.tag # "Ok"
                 THEN r
                 ELSE CASE t = "Plus" ->
                             IF lv.type = "String" /\ rv.type = "String"
                             THEN R(r.st, Ok(String(lv.s \o rv.s)))
                             ELSE R(r.st, evaluate_arithmetic(operator, lv, rv))
                        [] t \in {"Minus", "Star", "Slash"} ->
                             R(r.st, evaluate_arithmetic(operator, lv, rv))
                        [] t \in {"Greater", "GreaterEqual", "Less", "LessEqual"} ->
                             R(r.st, evaluate_comparison(operator, lv, rv))
                        [] t = "EqualEqual" -> R(r.st, Ok(Boolean(LiteralEq(lv, rv))))
                        [] t = "BangEqual" -> R(r.st, Ok(Boolean(~LiteralEq(lv, rv))))
                        [] OTHER -> R(r.st, Panic)

evaluate(expr, st) ==
    CASE expr.kind = "Literal" -> R(st, Ok(expr.value))
      [] expr.kind = "Grouping" -> evaluate(expr.expr, st)
      [] expr.kind = "Unary" -> evaluate_unary_expression(expr.operator, expr.right, st)
      [] expr.kind = "Binary" ->
            evaluate_binary_expression(expr.left, expr.operator, expr.right, st)
      [] expr.kind = "Var" -> evaluate_var(expr.identifier, st)
      [] expr.kind = "Assign" -> evaluate_assignment(expr.identifier, expr.expr, st)
      [] expr.kind = "Logical" ->
            evaluate_logical(expr.left, expr.operator, expr.right, st)
      [] expr.kind = "Call" -> evaluate_call(expr.callee, expr.paren, expr.arguments, st)

execute_print(expr, st) ==
    LET v == evaluate(expr, st)
    IN  IF v.res.tag # "Ok" THEN v ELSE R(Println(v.st, v.res.value), Ok(Nil))

execute_if(condition, then_branch, else_branch, st) ==
    LET c == evaluate(condition, st)
    IN  IF c.res.tag # "Ok"
        THEN c
        ELSE IF is_truthy(c.res.value)
             THEN execute(then_branch, c.st)
             ELSE IF else_branch.tag = "Some"
                  THEN execute(else_branch.value, c.st)
                  ELSE R(c.st, Ok(Nil))

\* the loop of execute_while with n iterations done so far
while_loop(condition, body, st, n) ==
    LET c == evaluate(condition, st)
    IN  IF c.res.tag # "Ok"
        THEN c
        ELSE IF ~is_truthy(c.res.value)
             THEN R(c.st, Ok(Nil))
             ELSE IF n >= MaxIter
                  THEN R(c.st, Unfinished)
                  ELSE LET b == execute(body, c.st)
                       IN  IF b.res.tag # "Ok"
                           THEN b
                           ELSE while_loop(condition, body, b.st, n + 1)

execute_while(condition, body, st) == while_loop(condition, body, st, 0)

define_var(identifier, initializer, st) ==
    LET v == IF initializer.tag = "Some" THEN evaluate(initializer.value, st) ELSE R(st, Ok(Nil))
    IN  IF v.res.tag # "Ok"
        THEN v
        ELSE R([v.st EXCEPT !.frames = define(@, v.st.environment, identifier.lexeme, v.res.value)],
               Ok(Nil))

\* Interpreter::define_function: unimplemented!()
define_function(name, params, body, st) == R(st, Panic)

\* the loop of a Block arm that returns the error of a failing statement
\* without restoring the environment
execute_statements_leaking(statements, i, st, previous) ==
    IF i > Len(statements)
    THEN R([st EXCEPT !.environment = previous, !.frames = Release(@, previous)], Ok(Nil))
    ELSE LET s == execute(statements[i], st)
         IN  IF s.res.tag # "Ok"
             THEN s
             ELSE execute_statements(statements, i + 1, s.st, previous)

\* the for loop of the Block arm from the i-th statement on
execute_statements(statements, i, st, previous) ==
    IF i > Len(statements)
    THEN R([st EXCEPT !.environment = previous, !.frames = Release(@, previous)], Ok(Nil))
    ELSE LET s == execute(statements[i], st)
         IN  IF s.res.tag # "Ok"
             THEN R([s.st EXCEPT !.environment = previous, !.frames = Release(@, previous)],
                    s.res)
             ELSE execute_statements(statements, i + 1, s.st, previous)

\* the Stmt::Block arm of execute
execute_block(statements, st) ==
    LET previous == st.environment
        inner == [st EXCEPT !.frames = Append(@, enclosed(st.environment)),
                            !.environment = Len(st.frames) + 1]
    IN  execute_statements(statements, 1, inner, previous)

execute(stmt, st) ==
    CASE stmt.kind = "Print" -> execute_print(stmt.expr, st)
      [] stmt.kind = "Expression" -> evaluate(stmt.expr, st)
      [] stmt.kind = "If" ->
            execute_if(stmt.condition, stmt.then_branch, stmt.else_branch, st)
      [] stmt.kind = "While" -> execute_while(stmt.condition, stmt.body, st)
      [] stmt.kind = "VarStmt" -> define_var(stmt.identifier, stmt.initializer, st)
      [] stmt.kind = "Function" -> define_function(stmt.name, stmt.params, stmt.body, st)
      [] stmt.kind = "Block" -> execute_block(stmt.statements, st)

(***************************************************************************)
(* Spec: Interpreter::execute called at top level on statements of the     *)
(* finite families below, the trees the parser builds for small programs   *)
(* over the variables a, b, the never declared c, and the native clock.    *)
(***************************************************************************)
Op(token_type, lexeme) == Token(token_type, lexeme, 1)

Bang == Op("Bang", "!")

Minus == Op("Minus", "-")

BinaryOperators ==
    {Op("Plus", "+"), Minus, Op("Star", "*"), Op("Slash", "/"),
     Op("Greater", ">"), Op("GreaterEqual", ">="), Op("Less", "<"),
     Op("LessEqual", "<="), Op("EqualEqual", "=="), Op("BangEqual", "!=")}

LogicalOperators == {Op("Or", "or"), Op("And", "and")}

RightParen == Op("RightParen", ")")

\* the readings of the system clock
ClockReadings == {Number(5), Number(6)}

LiteralValues ==
    {Nil, Boolean(TRUE), Boolean(FALSE), Number(0), Number(1), String(""), String("x")}

\* an operand of every type of value: the literals and the native function
Operands == {Literal(v) : v \in LiteralValues} \cup {Var(Identifier("clock"))}

Reads == {Var(Identifier(n)) : n \in {"a", "b", "c"}}

Writes ==
    {Assign(Identifier(n), Literal(Number(k))) : n \in {"a", "b", "c"}, k \in {1, 2}}

UnaryExprs == {Unary(op, e) : op \in {Bang, Minus}, e \in Operands \cup Reads}

\* the operands of the binary expressions: one of every type of value, and 0
BinaryOperands ==
    {Literal(Nil), Literal(Boolean(TRUE)), Literal(Number(0)), Literal(Number(1)),
     Literal(String("x")), Var(Identifier("clock"))}

BinaryExprs ==
    {Binary(l, op, r) : l \in BinaryOperands, op \in BinaryOperators, r \in BinaryOperands}

\* a + 1, a < 2, "x" + a, ...: operands read from the environment
BinaryReads ==
    {Binary(Var(Identifier("a")), op, r) :
        op \in BinaryOperators, r \in {Literal(Number(1)), Var(Identifier("b"))}}

AssignExprs ==
    Writes
    \cup {Assign(Identifier("a"), Assign(Identifier("b"), Literal(Number(2)))),
          Assign(Identifier("a"), Var(Identifier("b"))),
          Assign(Identifier("a"), Var(Identifier("c"))),
          Assign(Identifier("c"), Assign(Identifier("a"), Literal(Number(2))))}

LogicalExprs ==
    {Logical(l, op, r) :
        l \in Operands \cup {Var(Identifier("a")), Var(Identifier("c"))},
        op \in LogicalOperators,
        r \in {Literal(Number(1)), Literal(String("x")), Literal(Nil),
               Assign(Identifier("a"), Literal(Number(2))),
               Call(Var(Identifier("clock")), RightParen, <<>>),
               Var(Identifier("c"))}}

ArgumentLists ==
    {<<>>,
     <<Literal(Number(1))>>,
     <<Assign(Identifier("a"), Literal(Number(1)))>>,
     <<Assign(Identifier("a"), Literal(Number(1))),
       Assign(Identifier("a"), Literal(Number(2)))>>,
     <<Assign(Identifier("a"), Literal(Number(1))), Var(Identifier("c"))>>,
     <<Var(Identifier("c")), Assign(Identifier("a"), Literal(Number(1)))>>}

CallExprs ==
    {Call(callee, RightParen, args) :
        callee \in Operands \cup Reads \cup {Assign(Identifier("b"), Literal(Number(1)))},
        args \in ArgumentLists}

GroupingExprs == {Grouping(e) : e \in Writes \cup Reads}

Exprs ==
    Operands \cup Reads \cup UnaryExprs \cup BinaryExprs \cup BinaryReads
    \cup AssignExprs \cup LogicalExprs \cup CallExprs \cup GroupingExprs

ExpressionStmts == {Expression(e) : e \in Exprs}

PrintStmts == {PrintStmt(e) : e \in Operands \cup Reads \cup Writes}

VarStmts ==
    {VarStmt(Identifier(n), init) :
        n \in {"a", "b"},
        init \in {None, Some(Literal(Number(1))), Some(Literal(Number(2))),
                  Some(Var(Identifier("a"))), Some(Var(Identifier("c")))}}

Yes == PrintStmt(Literal(String("yes")))

No == PrintStmt(Literal(String("no")))

IfStmts ==
    {If(c, t, e) :
        c \in Operands \cup Reads,
        t \in {Yes, Expression(Assign(Identifier("a"), Literal(Number(1))))},
        e \in {None, Some(No), Some(Expression(Var(Identifier("c"))))}}

\* while (a < 2) a = a + 1;
CountUp ==
    While(Binary(Var(Identifier("a")), Op("Less", "<"), Literal(Number(2))),
          Expression(Assign(Identifier("a"),
                            Binary(Var(Identifier("a")), Op("Plus", "+"),
                                   Literal(Number(1))))))

WhileStmts ==
    {CountUp,
     While(Var(Identifier("b")), Block(<<PrintStmt(Var(Identifier("b"))),
                                         Expression(Assign(Identifier("b"), Literal(Nil)))>>)),
     While(Literal(Boolean(FALSE)), Yes),
     While(Literal(Boolean(TRUE)), Expression(Var(Identifier("c")))),
     While(Literal(Boolean(TRUE)), Yes)}

\* the statements put inside blocks: declarations, prints, assignments and
\* statements that fail with each kind of runtime error
Inner ==
    {VarStmt(Identifier("a"), Some(Literal(Number(2)))),
     VarStmt(Identifier("b"), None),
     PrintStmt(Var(Identifier("a"))),
     Expression(Assign(Identifier("a"), Literal(Number(1)))),
     Expression(Var(Identifier("c"))),
     Expression(Unary(Minus, Literal(String("x")))),
     Expression(Call(Literal(Nil), RightParen, <<>>)),
     Expression(Call(Var(Identifier("clock")), RightParen, <<Literal(Nil)>>))}

\* { }, { s } and { s t }
FlatBlocksOf(inner) ==
    {Block(<<>>)} \cup {Block(<<s>>) : s \in inner}
    \cup {Block(<<s, t>>) : s, t \in inner}

FlatBlocks == FlatBlocksOf(Inner)

\* blocks in blocks: { { s } }, { { { s } } }, { s { t } u } and the blocks
\* met as the branch of an if or the body of a loop
NestedBlocksOf(inner) ==
    {Block(<<Block(<<s>>)>>) : s \in inner}
    \cup {Block(<<Block(<<Block(<<s>>)>>)>>) : s \in inner}
    \cup {Block(<<s, Block(<<t>>), PrintStmt(Var(Identifier("a")))>>) :
             s \in inner, t \in inner}
    \cup {Block(<<If(Literal(Boolean(TRUE)), Block(<<s>>), None)>>) : s \in inner}

NestedBlocks == NestedBlocksOf(Inner)

\* var a = 1; { var a = 2; print a; } print a;   as one block
Shadowing ==
    Block(<<VarStmt(Identifier("a"), Some(Literal(Number(1)))),
            Block(<<VarStmt(Identifier("a"), Some(Literal(Number(2)))),
                    PrintStmt(Var(Identifier("a")))>>),
            PrintStmt(Var(Identifier("a")))>>)

BlockStmts == FlatBlocks \cup NestedBlocks \cup {Shadowing}

\* Interpreter::new: the global frame holds the native function clock
Init ==
    /\ frames = define(<<new>>, globals, "clock", NativeFunction("clock", 0))
    /\ environment = globals
    /\ call = [op |-> "new"]
    /\ result = Unit
    /\ printed = <<>>

\* the state a call of execute starts from
State(now) ==
    [frames |-> frames, environment |-> environment, printed |-> <<>>, now |-> now]

\* one call of Interpreter::execute(stmt) that returns; the caller makes its
\* next call once it has taken the result of this one
Execute(stmt, now) ==
    LET r == execute(stmt, State(now))
    IN  /\ call.op \in {"new", "none"}
        /\ r.res.tag \in {"Ok", "Err"}
        /\ frames' = r.st.frames
        /\ environment' = r.st.environment
        /\ printed' = r.st.printed
        /\ result' = r.res
        /\ call' = [op |-> "execute", stmt |-> stmt]

ExecuteExpression == \E s \in ExpressionStmts, now \in ClockReadings : Execute(s, now)

ExecutePrint == \E s \in PrintStmts, now \in ClockReadings : Execute(s, now)

ExecuteVar == \E s \in VarStmts, now \in ClockReadings : Execute(s, now)

ExecuteIf == \E s \in IfStmts, now \in ClockReadings : Execute(s, now)

ExecuteWhile == \E s \in WhileStmts, now \in ClockReadings : Execute(s, now)

ExecuteBlock == \E s \in BlockStmts, now \in ClockReadings : Execute(s, now)

\* the caller takes what the call returned; the interpreter is left as the
\* call left it
TakeResult ==
    /\ call.op \notin {"new", "none"}
    /\ call' = [op |-> "none"]
    /\ result' = Unit
    /\ printed' = <<>>
    /\ UNCHANGED <<frames, environment>>

Next ==
    \/ ExecuteExpression
    \/ ExecutePrint
    \/ ExecuteVar
    \/ ExecuteIf
    \/ ExecuteWhile
    \/ ExecuteBlock
    \/ TakeResult

Spec == Init /\ [][Next]_vars

(***************************************************************************)
(* SpecEnv: the interpreter at work inside nested blocks.  The chain of    *)
(* frames is grown by enclosed, and the operations of Environment and the  *)
(* evaluator's Var, Assign and Block arms are called on the chain as the   *)
(* statements of a block call them.                                        *)
(***************************************************************************)
EnvNames == {"a", "b"}

EnvValues == {Number(1), Number(2)}

\* a and a = v
ScopedExprs ==
    {Var(Identifier(n)) : n \in EnvNames}
    \cup {Assign(Identifier(n), Literal(v)) : n \in EnvNames, v \in EnvValues}

\* blocks met inside blocks: with declarations, assignments to the frames
\* around them, and failing statements one, two and three blocks down
ScopedBlocks ==
    {Block(<<>>),
     Block(<<VarStmt(Identifier("a"), Some(Literal(Number(2)))),
             PrintStmt(Var(Identifier("a")))>>),
     Block(<<Expression(Assign(Identifier("a"), Literal(Number(2))))>>),
     Block(<<Expression(Var(Identifier("b")))>>),
     Block(<<Block(<<Expression(Var(Identifier("b")))>>)>>),
     Block(<<VarStmt(Identifier("b"), Some(Literal(Number(1)))),
             Block(<<Expression(Unary(Minus, Literal(String("x"))))>>),
             PrintStmt(Var(Identifier("b")))>>),
     Block(<<Block(<<Block(<<Expression(Call(Literal(Nil), RightParen, <<>>))>>)>>)>>),
     Block(<<Block(<<Expression(Call(Var(Identifier("clock")), RightParen,
                                     <<Literal(Nil)>>))>>)>>),
     Block(<<If(Var(Identifier("a")),
                Block(<<Expression(Assign(Identifier("b"), Literal(Number(1))))>>),
                None)>>)}

Idle == call.op \in {"new", "none"}

CallEnclosed ==
    /\ Idle
    /\ Len(frames) < MaxDepth
    /\ frames' = Append(frames, enclosed(environment))
    /\ environment' = Len(frames) + 1
    /\ call' = [op |-> "enclosed"]
    /\ result' = Unit
    /\ UNCHANGED printed

CallDefine ==
    \E name \in EnvNames, value \in EnvValues :
        /\ Idle
        /\ frames' = define(frames, environment, name, value)
        /\ call' = [op |-> "define", name |-> name, value |-> value]
        /\ result' = Unit
        /\ UNCHANGED <<environment, printed>>

CallAssign ==
    \E name \in EnvNames, value \in EnvValues :
        LET r == assign(frames, environment, name, value)
        IN  /\ Idle
            /\ frames' = r.frames
            /\ call' = [op |-> "assign", name |-> name, value |-> value]
            /\ result' = Bool(r.found)
            /\ UNCHANGED <<environment, printed>>

CallGet ==
    \E name \in EnvNames :
        /\ Idle
        /\ call' = [op |-> "get", name |-> name]
        /\ result' = get(frames, environment, name)
        /\ UNCHANGED <<frames, environment, printed>>

CallFetch ==
    \E name \in EnvNames :
        /\ Idle
        /\ call' = [op |-> "fetch", name |-> name]
        /\ result' = fetch(frames, environment, name)
        /\ UNCHANGED <<frames, environment, printed>>

\* one call of Interpreter::evaluate(expr)
CallEvaluate ==
    \E expr \in ScopedExprs, now \in ClockReadings :
        LET r == evaluate(expr, State(now))
        IN  /\ Idle
            /\ frames' = r.st.frames
            /\ environment' = r.st.environment
            /\ printed' = r.st.printed
            /\ result' = r.res
            /\ call' = [op |-> "evaluate", expr |-> expr]

\* one call of Interpreter::execute(stmt) on a block
CallExecute == \E s \in ScopedBlocks, now \in ClockReadings : Execute(s, now)

NextEnv ==
    \/ CallEnclosed
    \/ CallDefine
    \/ CallAssign
    \/ CallGet
    \/ CallFetch
    \/ CallEvaluate
    \/ CallExecute
    \/ TakeResult

SpecEnv == Init /\ [][NextEnv]_vars

(***************************************************************************)
(* What the claims about the chain speak of: the frames of the chain from  *)
(* frame e outwards, and the nearest of them that binds a name.            *)
(***************************************************************************)
RECURSIVE Chain(_, _)
Chain(fs, e) == IF e = 0 THEN <<>> ELSE <<e>> \o Chain(fs, fs[e].enclosing)

Binds(fs, i, name) == name \in DOMAIN fs[i].values

BoundInChain(fs, e, name) ==
    \E k \in 1..Len(Chain(fs, e)) : Binds(fs, Chain(fs, e)[k], name)

\* the nearest frame of the chain from e that binds name, 0 when none does
NearestFrame(fs, e, name) ==
    LET c == Chain(fs, e)
        hits == {k \in 1..Len(c) : Binds(fs, c[k], name)}
    IN  IF hits = {} THEN 0 ELSE c[CHOOSE k \in hits : \A j \in hits : k <= j]

NearestValue(fs, e, name) ==
    IF NearestFrame(fs, e, name) = 0
    THEN None
    ELSE Some(fs[NearestFrame(fs, e, name)].values[name])

\* C2: fetch(name) returns the value bound to name in the nearest frame of
\* the chain (innermost to outermost) that binds it, returns nothing only
\* when no frame of the whole chain binds it, and modifies no frame.
C2_FetchNearestBinding ==
    [][call'.op = "fetch" =>
          /\ frames' = frames
          /\ result' = NearestValue(frames, environment, call'.name)]_vars

\* C2: a fetch of a name bound only two or more frames out of the innermost
C2_FetchTwoLevelsOut ==
    /\ call.op = "fetch"
    /\ Len(Chain(frames, environment)) >= 3
    /\ ~Binds(frames, environment, call.name)
    /\ ~Binds(frames, frames[environment].enclosing, call.name)
    /\ BoundInChain(frames, environment, call.name)

\* C3: assign(name, value), when some frame of the chain binds name, returns
\* true and overwrites the binding in the nearest such frame only: every
\* other binding of every frame is unchanged and no frame gains a name.
C3_AssignNearestOnly ==
    [][(call'.op = "assign" /\ BoundInChain(frames, environment, call'.name)) =>
          LET k == NearestFrame(frames, environment, call'.name)
          IN  /\ result' = Bool(TRUE)
              /\ Len(frames') = Len(frames)
              /\ \A i \in 1..Len(frames) :
                    /\ frames'[i].enclosing = frames[i].enclosing
                    /\ DOMAIN frames'[i].values = DOMAIN frames[i].values
                    /\ \A n \in DOMAIN frames[i].values :
                          frames'[i].values[n] =
                              IF i = k /\ n = call'.name
                              THEN call'.value
                              ELSE frames[i].values[n]]_vars

\* C3: an assign that went outwards past the innermost frame to a name that
\* is bound, with another value, in a frame further out as well
C3_AssignShadowed ==
    /\ call.op = "assign"
    /\ result = Bool(TRUE)
    /\ ~Binds(frames, environment, call.name)
    /\ \E i, j \in 1..Len(frames) :
          /\ i < j
          /\ Binds(frames, i, call.name)
          /\ Binds(frames, j, call.name)
          /\ frames[j].values[call.name] = call.value
          /\ frames[i].values[call.name] # call.value

(***************************************************************************)
(* What the claims about the evaluator speak of.                           *)
(***************************************************************************)
\* the value of an operand of the families: a literal, or the variable clock
ValueOf(operand) ==
    IF operand.kind = "Literal" THEN operand.value ELSE NativeFunction("clock", 0)

\* the only falsy values are Nil and Boolean(false)
Falsy(v) == v = Nil \/ v = Boolean(FALSE)

IsNumber(v) == v.type = "Number"

IsString(v) == v.type = "String"

GlobalBinds(fs, name) == name \in DOMAIN fs[globals].values

\* C1: execute on a Block leaves the current-environment pointer equal to
\* the frame it pointed to before the block, when every inner statement
\* succeeds and when one fails, whatever the depth of the blocks inside it
\* and around it; at top level that frame is the global frame.
C1_BlockRestoresEnvironment ==
    [][call'.op = "execute" =>
          /\ environment' = environment
          /\ (Len(frames) = 1 => environment' = globals)]_vars

\* C1: a block three blocks deep has failed while the interpreter was itself
\* inside nested blocks
C1_FailedInsideNestedBlocks ==
    /\ call.op = "execute"
    /\ call.stmt =
          Block(<<Block(<<Block(<<Expression(Call(Literal(Nil), RightParen, <<>>))>>)>>)>>)
    /\ result.tag = "Err"
    /\ environment = 3

\* blocks that declare, print and fail but assign to no variable
DeclaringBlocks ==
    FlatBlocksOf(Inner \ {Expression(Assign(Identifier("a"), Literal(Number(1))))})
    \cup NestedBlocksOf(Inner \ {Expression(Assign(Identifier("a"), Literal(Number(1))))})
    \cup {Shadowing}

\* { var a = 2; print a; }
ShadowBlock ==
    Block(<<VarStmt(Identifier("a"), Some(Literal(Number(2)))),
            PrintStmt(Var(Identifier("a")))>>)

\* C4: a var declaration always succeeds and changes only the innermost
\* frame: a block that declares a name bound outside it leaves the outer
\* binding as it was, { var a = 2; print a; } prints 2 whatever a is outside,
\* a following print a; prints the outer value, and
\* var a = 1; { var a = 2; print a; } print a;  prints 2 then 1.
C4_DefineShadows ==
    [][call'.op = "execute" =>
          LET s == call'.stmt
          IN  /\ s \in DeclaringBlocks => frames' = frames
              /\ s = ShadowBlock => result' = Ok(Nil) /\ printed' = <<Number(2)>>
              /\ s = Shadowing => result' = Ok(Nil) /\ printed' = <<Number(2), Number(1)>>
              /\ (s.kind = "VarStmt" /\ s.initializer.tag = "Some"
                    /\ s.initializer.value.kind = "Literal") =>
                    /\ result' = Ok(Nil)
                    /\ frames' = <<[enclosing |-> 0,
                                    values |-> Insert(frames[globals].values,
                                                      s.identifier.lexeme,
                                                      s.initializer.value.value)]>>
              /\ (s = PrintStmt(Var(Identifier("a"))) /\ GlobalBinds(frames, "a")) =>
                    printed' = <<frames[globals].values["a"]>>]_vars

\* C4: after var a = 1; the block { var a = 2; print a; } has printed 2 and
\* the global a is still 1
C4_ShadowedGlobalKept ==
    /\ call.op = "execute"
    /\ call.stmt = ShadowBlock
    /\ printed = <<Number(2)>>
    /\ GlobalBinds(frames, "a")
    /\ frames[globals].values["a"] = Number(1)

\* C5: evaluating a Var or an Assign whose name no frame of the chain binds
\* yields RuntimeError(UndeclaredIdentifier) carrying the identifier token
\* and leaves every frame unchanged; an Assign to a bound name evaluates to
\* the assigned value.
C5_UndeclaredIdentifier ==
    [][call'.op = "evaluate" =>
          LET e == call'.expr
          IN  IF ~BoundInChain(frames, environment, e.identifier.lexeme)
              THEN /\ result' = Err(e.identifier, "UndeclaredIdentifier")
                   /\ result'.token = e.identifier
                   /\ frames' = frames
              ELSE e.kind = "Assign" => result' = Ok(e.expr.value)]_vars

\* C5: an assignment to an undeclared name has failed two blocks down
C5_FailedAssignInBlock ==
    /\ call.op = "evaluate"
    /\ call.expr.kind = "Assign"
    /\ result.tag = "Err"
    /\ Len(frames) = 3
    /\ environment = 3
    /\ ~BoundInChain(frames, environment, call.expr.identifier.lexeme)

\* C6: !v is Boolean(true) when v is Nil or Boolean(false), Boolean(false)
\* for every other value, and never an error.
C6_BangNegatesTruthiness ==
    (call.op = "execute" /\ call.stmt \in {Expression(Unary(Bang, o)) : o \in Operands}) =>
        result = Ok(Boolean(Falsy(ValueOf(call.stmt.expr.right))))

\* C6: !true has been evaluated
C6_BangTrue ==
    /\ call.op = "execute"
    /\ call.stmt = Expression(Unary(Bang, Literal(Boolean(TRUE))))
    /\ result.tag = "Ok"

\* C7: - * / < <= > >= succeed exactly when both operands are Number, +
\* exactly when both are Number or both are String (concatenation); every
\* other pair of operands yields RuntimeError(ExpectedNumber) carrying the
\* operator token, and so does unary - on a value that is not a Number.
C7_ExpectedNumber ==
    /\ (call.op = "execute" /\ call.stmt \in {Expression(e) : e \in BinaryExprs}
          /\ call.stmt.expr.operator.token_type \notin {"EqualEqual", "BangEqual"}) =>
          LET op == call.stmt.expr.operator
              l == ValueOf(call.stmt.expr.left)
              r == ValueOf(call.stmt.expr.right)
          IN  IF IsNumber(l) /\ IsNumber(r)
              THEN result.tag = "Ok"
              ELSE IF op.token_type = "Plus" /\ IsString(l) /\ IsString(r)
                   THEN result = Ok(String(l.s \o r.s))
                   ELSE result = Err(op, "ExpectedNumber") /\ result.token = op
    /\ (call.op = "execute" /\ call.stmt \in {Expression(Unary(Minus, o)) : o \in Operands}) =>
          IF IsNumber(ValueOf(call.stmt.expr.right))
          THEN result.tag = "Ok"
          ELSE result = Err(Minus, "ExpectedNumber")

\* C7: 1 + "x" has failed with ExpectedNumber at the +
C7_NumberPlusString ==
    /\ call.op = "execute"
    /\ call.stmt = Expression(Binary(Literal(Number(1)), Op("Plus", "+"), Literal(String("x"))))
    /\ result = Err(Op("Plus", "+"), "ExpectedNumber")

\* C8: an If executes its then-branch exactly when the condition is truthy
\* and otherwise its else-branch, if any; only Nil and Boolean(false) are
\* falsy, so if ("") print "yes"; else print "no"; prints yes.
C8_IfTruthiness ==
    (call.op = "execute"
        /\ call.stmt \in {If(c, Yes, e) : c \in Operands, e \in {None, Some(No)}}) =>
        /\ result = Ok(Nil)
        /\ printed = IF ~Falsy(ValueOf(call.stmt.condition))
                     THEN <<String("yes")>>
                     ELSE IF call.stmt.else_branch = Some(No)
                          THEN <<String("no")>>
                          ELSE <<>>

\* C8: if ("") print "yes"; else print "no"; has printed yes
C8_EmptyStringIsTruthy ==
    /\ call.op = "execute"
    /\ call.stmt = If(Literal(String("")), Yes, Some(No))
    /\ printed = <<String("yes")>>

\* C9: or evaluates its right operand only when the left value is falsy,
\* and only when it is truthy; the result is the value of the last operand
\* evaluated, not coerced to Boolean, and the effects of the right operand
\* occur only when it is evaluated.
C9_LogicalShortCircuit ==
    [][(call'.op = "execute"
          /\ call'.stmt \in {Expression(Logical(l, op, r)) :
                                l \in Operands, op \in LogicalOperators,
                                r \in {Literal(Number(1)), Literal(String("x")), Literal(Nil),
                                       Assign(Identifier("a"), Literal(Number(2))),
                                       Call(Var(Identifier("clock")), RightParen, <<>>),
                                       Var(Identifier("c"))}}) =>
          LET e == call'.stmt.expr
              lv == ValueOf(e.left)
              r == e.right
              decided == IF e.operator.token_type = "Or" THEN ~Falsy(lv) ELSE Falsy(lv)
          IN  IF decided
              THEN result' = Ok(lv) /\ frames' = frames
              ELSE CASE r.kind = "Literal" -> result' = Ok(r.value) /\ frames' = frames
                     [] r.kind = "Call" ->
                          result'.tag = "Ok" /\ result'.value \in ClockReadings
                          /\ frames' = frames
                     [] r.kind = "Var" ->
                          result' = Err(r.identifier, "UndeclaredIdentifier")
                          /\ frames' = frames
                     [] r.kind = "Assign" ->
                          IF GlobalBinds(frames, "a")
                          THEN /\ result' = Ok(Number(2))
                               /\ frames' = [frames EXCEPT ![globals].values["a"] = Number(2)]
                          ELSE /\ result' = Err(r.identifier, "UndeclaredIdentifier")
                               /\ frames' = frames]_vars

\* C9: true or (a = 2) is true and has left a at 1
C9_RightOperandSkipped ==
    /\ call.op = "execute"
    /\ call.stmt = Expression(Logical(Literal(Boolean(TRUE)), Op("Or", "or"),
                                      Assign(Identifier("a"), Literal(Number(2)))))
    /\ result = Ok(Boolean(TRUE))
    /\ GlobalBinds(frames, "a")
    /\ frames[globals].values["a"] = Number(1)

\* what evaluating the arguments from the i-th on, left to right, does to
\* the frames fs, and the error of the first argument that fails, if any
RECURSIVE ArgumentsOutcome(_, _, _)
ArgumentsOutcome(arguments, i, fs) ==
    IF i > Len(arguments)
    THEN [frames |-> fs, err |-> None]
    ELSE LET x == arguments[i]
         IN  CASE x.kind = "Literal" -> ArgumentsOutcome(arguments, i + 1, fs)
               [] x.kind \in {"Var", "Assign"} /\ ~GlobalBinds(fs, x.identifier.lexeme) ->
                    [frames |-> fs, err |-> Some(Err(x.identifier, "UndeclaredIdentifier"))]
               [] x.kind = "Var" /\ GlobalBinds(fs, x.identifier.lexeme) ->
                    ArgumentsOutcome(arguments, i + 1, fs)
               [] x.kind = "Assign" /\ GlobalBinds(fs, x.identifier.lexeme) ->
                    ArgumentsOutcome(arguments, i + 1,
                        [fs EXCEPT ![globals].values[x.identifier.lexeme] = x.expr.value])

\* C10: a Call evaluates the callee, then all arguments left to right, and
\* only then checks the callee: a callee that is no Function yields
\* RuntimeError(NotCallable) carrying the closing-paren token, a Function
\* called with a number of arguments other than its arity yields
\* RuntimeError(InvalidArity) carrying the same token and is not run.
C10_CallChecksAfterArguments ==
    [][(call'.op = "execute"
          /\ call'.stmt \in {Expression(Call(c, RightParen, args)) :
                                c \in Operands \cup {Var(Identifier("c"))},
                                args \in ArgumentLists}) =>
          LET e == call'.stmt.expr
              after == ArgumentsOutcome(e.arguments, 1, frames)
          IN  IF e.callee = Var(Identifier("c"))
              THEN result' = Err(Identifier("c"), "UndeclaredIdentifier") /\ frames' = frames
              ELSE /\ frames' = after.frames
                   /\ IF after.err # None
                      THEN result' = after.err.value
                      ELSE IF ValueOf(e.callee).type # "Function"
                           THEN result' = Err(e.paren, "NotCallable")
                           ELSE IF Len(e.arguments) # ValueOf(e.callee).arity
                                THEN result' = Err(e.paren, "InvalidArity")
                                ELSE result'.tag = "Ok" /\ result'.value \in ClockReadings]_vars

\* C10: nil(a = 1, a = 2) has failed with NotCallable after both assignments
C10_NotCallableAfterArguments ==
    /\ call.op = "execute"
    /\ call.stmt = Expression(Call(Literal(Nil), RightParen,
                                   <<Assign(Identifier("a"), Literal(Number(1))),
                                     Assign(Identifier("a"), Literal(Number(2)))>>))
    /\ result = Err(RightParen, "NotCallable")
    /\ frames[globals].values["a"] = Number(2)

\* C10: clock(1) has failed with InvalidArity
C10_InvalidArity ==
    /\ call.op = "execute"
    /\ call.stmt = Expression(Call(Var(Identifier("clock")), RightParen, <<Literal(Number(1))>>))
    /\ result = Err(RightParen, "InvalidArity")

(***************************************************************************)
(* parser.rs.  The parser is the record [tokens, current]; current counts  *)
(* the tokens consumed, as in the source, so that the token under the      *)
(* cursor is tokens[current + 1].  Every method is an operator from the    *)
(* parser to the parser afterwards and the result returned.                *)
(***************************************************************************)
\* the cap on parameters and on arguments
MaxParams == 255

MaxArguments == 255

\* LoxError::parse_error(token, msg)
parse_error(token, msg) ==
    [tag |-> "Err", token |-> token, kind |-> "SyntaxError", detail |-> msg,
     line |-> token.line]

\* Parser::new
Parser(tokens) == [tokens |-> tokens, current |-> 0]

\* a parser and what a method returned
P(p, res) == [p |-> p, res |-> res]

\* the ? of the source: what a method returned is returned at once unless it
\* is Ok, and otherwise the method goes on with it
Try(r, F(_)) == IF r.res.tag # "Ok" THEN r ELSE F(r)

\* a match of the source on what a method returned
Match(r, F(_)) == F(r)

\* Some(value) of what a method returned
SomeOf(r) == Try(r, LAMBDA e : P(e.p, Ok(Some(e.res.value))))

\* Parser::peek; with the cursor past the last token tokens.get(current) is
\* None and the unwrap panics: the token read then is never used
peek(p) ==
    IF p.current >= Len(p.tokens) THEN Token("None", "", 0) ELSE p.tokens[p.current + 1]

\* Parser::is_at_end; a panic of peek ends every loop of the parser, and
\* parse reports it
is_at_end(p) == p.current >= Len(p.tokens) \/ peek(p).token_type = "EOF"

\* Parser::previous, called with current > 0
previous(p) == p.tokens[p.current]

\* Parser::advance: the parser afterwards (the token returned is previous)
advance(p) == IF is_at_end(p) THEN p ELSE [p EXCEPT !.current = @ + 1]

\* Parser::check
check(p, token_type) == IF is_at_end(p) THEN FALSE ELSE peek(p).token_type = token_type

\* Parser::consume: Ok(token) with the cursor moved, or the error at peek
consume(p, token_type, msg) ==
    IF check(p, token_type)
    THEN P(advance(p), Ok(peek(p)))
    ELSE P(p, parse_error(peek(p), msg))

\* Parser::consume_identifier
consume_identifier(p, msg) ==
    IF peek(p).token_type = "Identifier"
    THEN P(advance(p), Ok(peek(p)))
    ELSE P(p, parse_error(peek(p), msg))

RECURSIVE declaration(_), statement(_), parse_block(_), block_statements(_, _),
          expression(_), assignment(_), or(_), or_loop(_, _), and(_), and_loop(_, _),
          equality(_), equality_loop(_, _), comparison(_), comparison_loop(_, _),
          term(_), term_loop(_, _), term_loop_right(_, _), factor(_), factor_loop(_, _),
          unary(_), parse_call(_), call_loop(_), finish_call(_, _), arguments(_, _),
          primary(_), synchronize_loop(_), parse_loop(_, _, _), parameter_passes(_, _)

\* the loop of Parser::synchronize
synchronize_loop(p) ==
    IF is_at_end(p)
    THEN p
    ELSE IF previous(p).token_type = "Semicolon"
         THEN p
         ELSE IF peek(p).token_type \in
                    {"Class", "Fun", "Var", "For", "If", "While", "Print", "Return"}
              THEN p
              ELSE synchronize_loop(advance(p))

\* Parser::synchronize: advance, then the loop
synchronize(p) == synchronize_loop(advance(p))

\* at most n passes of the loop over the parameters of
\* Parser::function_declaration, the first half of them made before the
\* second.  A pass takes s = [p, params, res], res being Unfinished until
\* the loop is left.
parameter_passes(s, n) ==
    LET parameter_pass(name) ==
            IF name.res.tag # "Ok"
            THEN [p |-> name.p, params |-> s.params, res |-> name.res]
            ELSE IF Len(s.params) + 1 >= MaxParams
                 THEN [p |-> name.p, params |-> Append(s.params, name.res.value),
                       res |-> parse_error(previous(name.p),
                                "A function cannot have more than 255 parameters.")]
                 ELSE IF check(name.p, "Comma")
                      THEN [p |-> advance(name.p),
                            params |-> Append(s.params, name.res.value),
                            res |-> Unfinished]
                      ELSE [p |-> name.p, params |-> Append(s.params, name.res.value),
                            res |-> Ok(Append(s.params, name.res.value))]
    IN  IF n <= 1
        THEN parameter_pass(consume_identifier(s.p, "Expected parameter name."))
        ELSE Match(parameter_passes(s, n \div 2), LAMBDA half :
                 IF half.res.tag # "Unfinished"
                 THEN half
                 ELSE parameter_passes(half, n - n \div 2))

\* the loop over the parameters of Parser::function_declaration: every pass
\* consumes a token, so the loop is left within Len(p.tokens) passes
parameters(p, params) ==
    Match(parameter_passes([p |-> p, params |-> params, res |-> Unfinished],
                           Len(p.tokens)),
          LAMBDA s : P(s.p, s.res))

\* Parser::function_declaration; the statement is Stmt::Function(name,
\* params, body)
function_declaration(p) ==
    Try(consume_identifier(p, "Expected function name."), LAMBDA name :
    Try(consume(name.p, "LeftParen", "Expected '(' after function name."), LAMBDA left :
    Try(IF ~check(left.p, "RightParen") THEN parameters(left.p, <<>>)
        ELSE P(left.p, Ok(<<>>)), LAMBDA params :
    Try(consume(params.p, "RightParen", "Expected ')' after parameter list."), LAMBDA right :
    Try(consume(right.p, "LeftBrace", "Expected '{' before function body."), LAMBDA brace :
    Try(parse_block(brace.p), LAMBDA body :
        P(body.p, Ok([kind |-> "Function", name |-> name.res.value,
                      params |-> params.res.value, body |-> body.res.value]))))))))

\* Parser::var_declaration
var_declaration(p) ==
    IF peek(p).token_type = "Identifier"
    THEN Try(IF check(advance(p), "Equal")
             THEN SomeOf(expression(advance(advance(p))))
             ELSE P(advance(p), Ok(None)), LAMBDA initializer :
         Try(consume(initializer.p, "Semicolon", "Expected ';' after variable declaration"),
             LAMBDA semi : P(semi.p, Ok(VarStmt(peek(p), initializer.res.value)))))
    ELSE P(p, parse_error(peek(p), "Expected variable name."))

\* Parser::expr_statement
expr_statement(p) ==
    Try(expression(p), LAMBDA expr :
    Try(consume(expr.p, "Semicolon", "Expected semicolon"), LAMBDA semi :
        P(semi.p, Ok(Expression(expr.res.value)))))

\* Parser::print_statement
print_statement(p) ==
    Try(expression(p), LAMBDA expr :
    Try(consume(expr.p, "Semicolon", "Expected semicolon"), LAMBDA semi :
        P(semi.p, Ok(PrintStmt(expr.res.value)))))

\* Parser::return_statement; the statement is Stmt::Return(keyword, value),
\* value being Some(expr) or None
return_statement(p) ==
    Try(IF check(p, "Semicolon") THEN P(p, Ok(None)) ELSE SomeOf(expression(p)),
        LAMBDA value :
    Try(consume(value.p, "Semicolon", "Expected ';' after return value."), LAMBDA semi :
        P(semi.p, Ok([kind |-> "Return", keyword |-> previous(p),
                      value |-> value.res.value]))))

\* Parser::while_statement
while_statement(p) ==
    Try(consume(p, "LeftParen", "Expected '(' after 'while'."), LAMBDA left :
    Try(expression(left.p), LAMBDA condition :
    Try(consume(condition.p, "RightParen", "Expected ')' after condition."), LAMBDA right :
    Try(statement(right.p), LAMBDA body :
        P(body.p, Ok(While(condition.res.value, body.res.value)))))))

\* Parser::parse_if
parse_if(p) ==
    Try(consume(p, "LeftParen", "Expected '(' after 'if'."), LAMBDA left :
    Try(expression(left.p), LAMBDA condition :
    Try(consume(condition.p, "RightParen", "Expected ')' after if condition."),
        LAMBDA right :
    Try(statement(right.p), LAMBDA then_branch :
    Try(IF check(then_branch.p, "Else")
        THEN SomeOf(statement(advance(then_branch.p)))
        ELSE P(then_branch.p, Ok(None)), LAMBDA else_branch :
        P(else_branch.p, Ok(If(condition.res.value, then_branch.res.value,
                               else_branch.res.value))))))))

\* Parser::for_statement.  for_body is the body with the increment after it,
\* loop_stmt the while loop, and result the last match of the method, whose
\* None arm hands back the body and not the loop.
for_statement(p) ==
    LET for_body(increment, body) ==
            IF increment.tag = "Some"
            THEN Block(<<body, Expression(increment.value)>>)
            ELSE body
        loop_stmt(condition, body) ==
            While(IF condition.tag = "Some" THEN condition.value
                  ELSE Literal(Boolean(TRUE)), body)
        result_of(initializer, condition, increment, body) ==
            IF initializer.tag = "Some"
            THEN Block(<<initializer.value,
                         loop_stmt(condition, for_body(increment, body))>>)
            ELSE for_body(increment, body)
    IN  Try(consume(p, "LeftParen", "Expected '(' after 'for'."), LAMBDA left :
        Try(IF check(left.p, "Var")
            THEN SomeOf(var_declaration(advance(left.p)))
            ELSE IF check(left.p, "Semicolon")
                 THEN P(advance(left.p), Ok(None))
                 ELSE SomeOf(expr_statement(left.p)), LAMBDA initializer :
        Try(IF peek(initializer.p).token_type = "Semicolon"
            THEN P(initializer.p, Ok(None))
            ELSE SomeOf(expression(initializer.p)), LAMBDA condition :
        Try(consume(condition.p, "Semicolon", "Expected ';' after loop condition."),
            LAMBDA semi :
        Try(IF peek(semi.p).token_type = "RightParen"
            THEN P(semi.p, Ok(None))
            ELSE SomeOf(expression(semi.p)), LAMBDA increment :
        Try(consume(increment.p, "RightParen", "Expected ')' after for clause."),
            LAMBDA right :
        Try(statement(right.p), LAMBDA body :
            P(body.p, Ok(result_of(initializer.res.value, condition.res.value,
                                   increment.res.value, body.res.value))))))))))

\* the loop of Parser::parse_block, and the closing brace
block_statements(p, statements) ==
    IF ~check(p, "RightBrace") /\ ~is_at_end(p)
    THEN Try(declaration(p), LAMBDA stmt :
             block_statements(stmt.p, Append(statements, stmt.res.value)))
    ELSE Try(consume(p, "RightBrace", "Expected '}' after block."), LAMBDA brace :
             P(brace.p, Ok(statements)))

\* Parser::parse_block
parse_block(p) == block_statements(p, <<>>)

\* Parser::statement
statement(p) ==
    CASE peek(p).token_type = "Print" -> print_statement(advance(p))
      [] peek(p).token_type = "Return" -> return_statement(advance(p))
      [] peek(p).token_type = "While" -> while_statement(advance(p))
      [] peek(p).token_type = "For" -> for_statement(advance(p))
      [] peek(p).token_type = "LeftBrace" ->
            Try(parse_block(advance(p)), LAMBDA block :
                P(block.p, Ok(Block(block.res.value))))
      [] peek(p).token_type = "If" -> parse_if(advance(p))
      [] OTHER -> expr_statement(p)

\* Parser::declaration
declaration(p) ==
    Match(CASE peek(p).token_type = "Fun" -> function_declaration(advance(p))
            [] peek(p).token_type = "Var" -> var_declaration(advance(p))
            [] OTHER -> statement(p),
          LAMBDA parsed :
              IF parsed.res.tag = "Err"
              THEN P(synchronize(parsed.p), parsed.res)
              ELSE parsed)

\* Parser::expression
expression(p) == assignment(p)

\* Parser::assignment: the target is kept as or() returned it, error or not
assignment(p) ==
    Match(or(p), LAMBDA expr :
        IF expr.res.tag = "Panic"
        THEN expr
        ELSE IF check(expr.p, "Equal")
             THEN Try(assignment(advance(expr.p)), LAMBDA value :
                      IF expr.res.tag = "Ok" /\ expr.res.value.kind = "Var"
                      THEN P(value.p, Ok(Assign(expr.res.value.identifier,
                                                value.res.value)))
                      ELSE P(value.p, parse_error(previous(value.p),
                                                  "Invalid assignment target.")))
             ELSE expr)

\* the operands of Parser::or: the first one, and one more after every
\* operator of the level; left holds the expression built so far and the
\* operator consumed
or_loop(p, left) ==
    LET expr_of(right) ==
            IF left.some THEN Logical(left.expr, left.operator, right) ELSE right
    IN  Try(and(p), LAMBDA operand :
            IF check(operand.p, "Or")
            THEN or_loop(advance(operand.p),
                         [some |-> TRUE, expr |-> expr_of(operand.res.value),
                          operator |-> peek(operand.p)])
            ELSE P(operand.p, Ok(expr_of(operand.res.value))))

\* Parser::or
or(p) == or_loop(p, [some |-> FALSE])

\* the operands of Parser::and: the first one, and one more after every
\* operator of the level; left holds the expression built so far and the
\* operator consumed
and_loop(p, left) ==
    LET expr_of(right) ==
            IF left.some THEN Logical(left.expr, left.operator, right) ELSE right
    IN  Try(equality(p), LAMBDA operand :
            IF check(operand.p, "And")
            THEN and_loop(advance(operand.p),
                         [some |-> TRUE, expr |-> expr_of(operand.res.value),
                          operator |-> peek(operand.p)])
            ELSE P(operand.p, Ok(expr_of(operand.res.value))))

\* Parser::and
and(p) == and_loop(p, [some |-> FALSE])

\* the operands of Parser::equality: the first one, and one more after every
\* operator of the level; left holds the expression built so far and the
\* operator consumed
equality_loop(p, left) ==
    LET expr_of(right) ==
            IF left.some THEN Binary(left.expr, left.operator, right) ELSE right
    IN  Try(comparison(p), LAMBDA operand :
            IF check(operand.p, "BangEqual") \/ check(operand.p, "EqualEqual")
            THEN equality_loop(advance(operand.p),
                         [some |-> TRUE, expr |-> expr_of(operand.res.value),
                          operator |-> peek(operand.p)])
            ELSE P(operand.p, Ok(expr_of(operand.res.value))))

\* Parser::equality
equality(p) == equality_loop(p, [some |-> FALSE])

\* the operands of Parser::comparison: the first one, and one more after every
\* operator of the level; left holds the expression built so far and the
\* operator consumed
comparison_loop(p, left) ==
    LET expr_of(right) ==
            IF left.some THEN Binary(left.expr, left.operator, right) ELSE right
    IN  Try(term(p), LAMBDA operand :
            IF check(operand.p, "Greater") \/ check(operand.p, "GreaterEqual")
               \/ check(operand.p, "Less") \/ check(operand.p, "LessEqual")
            THEN comparison_loop(advance(operand.p),
                         [some |-> TRUE, expr |-> expr_of(operand.res.value),
                          operator |-> peek(operand.p)])
            ELSE P(operand.p, Ok(expr_of(operand.res.value))))

\* Parser::comparison
comparison(p) == comparison_loop(p, [some |-> FALSE])

\* a loop of term whose operators nest to the right
term_loop_right(p, left) ==
    Try(factor(p), LAMBDA operand :
        IF check(operand.p, "Minus") \/ check(operand.p, "Plus")
        THEN Try(term_loop_right(advance(operand.p), left), LAMBDA right :
                 P(right.p, Ok(Binary(operand.res.value, peek(operand.p),
                                      right.res.value))))
        ELSE operand)

\* the operands of Parser::term: the first one, and one more after every
\* operator of the level; left holds the expression built so far and the
\* operator consumed
term_loop(p, left) ==
    LET expr_of(right) ==
            IF left.some THEN Binary(left.expr, left.operator, right) ELSE right
    IN  Try(factor(p), LAMBDA operand :
            IF check(operand.p, "Minus") \/ check(operand.p, "Plus")
            THEN term_loop(advance(operand.p),
                         [some |-> TRUE, expr |-> expr_of(operand.res.value),
                          operator |-> peek(operand.p)])
            ELSE P(operand.p, Ok(expr_of(operand.res.value))))

\* Parser::term
term(p) == term_loop(p, [some |-> FALSE])

\* the operands of Parser::factor: the first one, and one more after every
\* operator of the level; left holds the expression built so far and the
\* operator consumed
factor_loop(p, left) ==
    LET expr_of(right) ==
            IF left.some THEN Binary(left.expr, left.operator, right) ELSE right
    IN  Try(unary(p), LAMBDA operand :
            IF check(operand.p, "Slash") \/ check(operand.p, "Star")
            THEN factor_loop(advance(operand.p),
                         [some |-> TRUE, expr |-> expr_of(operand.res.value),
                          operator |-> peek(operand.p)])
            ELSE P(operand.p, Ok(expr_of(operand.res.value))))

\* Parser::factor
factor(p) == factor_loop(p, [some |-> FALSE])

\* Parser::unary
unary(p) ==
    IF check(p, "Bang") \/ check(p, "Minus")
    THEN Try(unary(advance(p)), LAMBDA right :
             P(right.p, Ok(Unary(peek(p), right.res.value))))
    ELSE parse_call(p)

\* the loop of Parser::call over the argument lists
call_loop(callee) ==
    IF check(callee.p, "LeftParen")
    THEN Try(finish_call(advance(callee.p), callee.res.value), LAMBDA finished :
             call_loop(finished))
    ELSE callee

\* Parser::call
parse_call(p) == Try(primary(p), LAMBDA expr : call_loop(expr))

\* the loop of Parser::finish_call over the arguments
arguments(p, args) ==
    Try(expression(p), LAMBDA arg :
        IF Len(args) + 1 >= MaxArguments
        THEN P(arg.p, parse_error(previous(arg.p),
                                  "Function call cannot have more than 255 arguments."))
        ELSE IF check(arg.p, "Comma")
             THEN arguments(advance(arg.p), Append(args, arg.res.value))
             ELSE P(arg.p, Ok(Append(args, arg.res.value))))

\* Parser::finish_call
finish_call(p, callee) ==
    Try(IF ~check(p, "RightParen") THEN arguments(p, <<>>) ELSE P(p, Ok(<<>>)),
        LAMBDA args :
    Try(consume(args.p, "RightParen", "Expected ')' after argument list."), LAMBDA paren :
        P(paren.p, Ok(Call(callee, paren.res.value, args.res.value)))))

\* Parser::primary.  parse_f64 is the f64 of the lexeme of a Number token and
\* unquote the text between the quotes of a String token.  In the last arm
\* previous() with the cursor on the first token is
\* tokens.get(0 - 1).unwrap(): a panic.
primary(p) ==
    LET parse_f64(lexeme) ==
            CASE lexeme = "0" -> Number(0)
              [] lexeme = "1" -> Number(1)
              [] lexeme = "2" -> Number(2)
              [] lexeme = "3" -> Number(3)
              [] lexeme = "4" -> Number(4)
              [] lexeme = "5" -> Number(5)
        unquote(lexeme) ==
            CASE lexeme = "\"\"" -> ""
              [] lexeme = "\"x\"" -> "x"
              [] lexeme = "\"yes\"" -> "yes"
              [] lexeme = "\"no\"" -> "no"
    IN  CASE peek(p).token_type = "False" -> P(advance(p), Ok(Literal(Boolean(FALSE))))
          [] peek(p).token_type = "True" -> P(advance(p), Ok(Literal(Boolean(TRUE))))
          [] peek(p).token_type = "Nil" -> P(advance(p), Ok(Literal(Nil)))
          [] peek(p).token_type = "Number" ->
                P(advance(p), Ok(Literal(parse_f64(peek(p).lexeme))))
          [] peek(p).token_type = "String" ->
                P(advance(p), Ok(Literal(String(unquote(peek(p).lexeme)))))
          [] peek(p).token_type = "LeftParen" ->
                Try(expression(advance(p)), LAMBDA expr :
                Try(consume(expr.p, "RightParen", "Expected ')' after expression."),
                    LAMBDA paren : P(paren.p, Ok(Grouping(expr.res.value)))))
          [] peek(p).token_type = "Identifier" -> P(advance(p), Ok(Var(peek(p))))
          [] OTHER -> IF p.current = 0
                      THEN P(p, Panic)
                      ELSE P(p, parse_error(previous(p), "Expected expression"))

\* the loop of Parser::parse: Ok(statements), or Err(errors) when errors is
\* not empty; a panic ends it
parse_loop(p, program, errors) ==
    IF p.current >= Len(p.tokens)
    THEN Panic
    ELSE IF is_at_end(p)
         THEN IF errors = <<>> THEN Ok(program) ELSE [tag |-> "Err", errors |-> errors]
         ELSE Match(declaration(p), LAMBDA stmt :
                  CASE stmt.res.tag = "Ok" ->
                         parse_loop(stmt.p, Append(program, stmt.res.value), errors)
                    [] stmt.res.tag = "Err" ->
                         parse_loop(synchronize(stmt.p), program, Append(errors, stmt.res))
                    [] OTHER -> Panic)

\* Parser::parse on Parser::new(tokens)
parse(tokens) ==
    IF Len(tokens) = 1
    THEN Ok(<<Expression(Literal(Nil))>>)
    ELSE parse_loop(Parser(tokens), <<>>, <<>>)

\* the first turn of the loop of Parser::parse: the declaration and, when it
\* is an error, the synchronize of the loop; the parser is the one the second
\* turn starts with
parse_turn(tokens) ==
    Match(declaration(Parser(tokens)), LAMBDA stmt :
        IF stmt.res.tag = "Err" THEN P(synchronize(stmt.p), stmt.res) ELSE stmt)

(***************************************************************************)
(* Token streams.  The parser's contract is a stream of tokens ended by an *)
(* EOF token; the streams are written as sequences of lexemes.             *)
(***************************************************************************)
\* Token::match_keyword: the token type of a reserved word, Identifier for
\* any other word
match_keyword(lexeme) ==
    CASE lexeme = "and" -> "And" [] lexeme = "class" -> "Class"
      [] lexeme = "else" -> "Else" [] lexeme = "false" -> "False"
      [] lexeme = "for" -> "For" [] lexeme = "fun" -> "Fun"
      [] lexeme = "if" -> "If" [] lexeme = "nil" -> "Nil" [] lexeme = "or" -> "Or"
      [] lexeme = "print" -> "Print" [] lexeme = "return" -> "Return"
      [] lexeme = "super" -> "Super" [] lexeme = "this" -> "This"
      [] lexeme = "true" -> "True" [] lexeme = "var" -> "Var"
      [] lexeme = "while" -> "While"
      [] OTHER -> "Identifier"

\* the token type scan_token gives a lexeme: the one- and two-character
\* tokens, the numbers, the strings and the words
TokenTypeOf(lexeme) ==
    CASE lexeme = "(" -> "LeftParen" [] lexeme = ")" -> "RightParen"
      [] lexeme = "{" -> "LeftBrace" [] lexeme = "}" -> "RightBrace"
      [] lexeme = "," -> "Comma" [] lexeme = "." -> "Dot"
      [] lexeme = "-" -> "Minus" [] lexeme = "+" -> "Plus"
      [] lexeme = ";" -> "Semicolon" [] lexeme = "*" -> "Star"
      [] lexeme = "/" -> "Slash"
      [] lexeme = "!" -> "Bang" [] lexeme = "!=" -> "BangEqual"
      [] lexeme = "=" -> "Equal" [] lexeme = "==" -> "EqualEqual"
      [] lexeme = "<" -> "Less" [] lexeme = "<=" -> "LessEqual"
      [] lexeme = ">" -> "Greater" [] lexeme = ">=" -> "GreaterEqual"
      [] lexeme \in {"0", "1", "2", "3", "4", "5"} -> "Number"
      [] lexeme \in {"\"\"", "\"x\"", "\"yes\"", "\"no\""} -> "String"
      [] OTHER -> match_keyword(lexeme)

\* the tokens of the lexemes, the i-th on line lines[i], and the EOF token
\* on the last line
TokensAt(lexemes, lines) ==
    [i \in 1..(Len(lexemes) + 1) |->
        IF i <= Len(lexemes)
        THEN Token(TokenTypeOf(lexemes[i]), lexemes[i], lines[i])
        ELSE Token("EOF", "", IF lines = <<>> THEN 1 ELSE lines[Len(lines)])]

\* the tokens of a source of one line
Lex(lexemes) == TokensAt(lexemes, [i \in 1..Len(lexemes) |-> 1])

(***************************************************************************)
(* scanner.rs.  A source is its sequence of characters; the scanner is the *)
(* record [source, start, current, line, tokens, errors] with start and    *)
(* current counting characters from 0 as in the source.                    *)
(***************************************************************************)
\* Scanner::new
Scanner(source) ==
    [source |-> source, start |-> 0, current |-> 0, line |-> 1,
     tokens |-> <<>>, errors |-> <<>>]

\* Scanner::scan_token on the scanner s0, with the methods it calls:
\* is_digit, is_alpha, is_alphanumeric, is_at_end, peek (Some(char) or None),
\* peek_next, advance (the scanner afterwards), match_lookahead (which
\* consumes the character when it is the expected one), get_current_lexeme,
\* add_token, add_error, scan_string, scan_number, scan_identifier and the
\* loops of these.
scan_token(s0) ==
    LET is_digit(c) == c \in {"0", "1", "2", "3", "4", "5", "6", "7", "8", "9"}
        is_alpha(c) ==
            c \in {"a", "b", "c", "d", "e", "f", "g", "h", "i", "j", "k", "l", "m",
                   "n", "o", "p", "q", "r", "s", "t", "u", "v", "w", "x", "y", "z",
                   "A", "B", "C", "D", "E", "F", "G", "H", "I", "J", "K", "L", "M",
                   "N", "O", "P", "Q", "R", "S", "T", "U", "V", "W", "X", "Y", "Z", "_"}
        is_alphanumeric(c) == is_digit(c) \/ is_alpha(c)
        scanner_is_at_end(s) == s.current >= Len(s.source)
        scanner_peek(s) ==
            IF scanner_is_at_end(s) THEN None ELSE Some(s.source[s.current + 1])
        peek_next(s) ==
            IF s.current + 1 > Len(s.source) \/ s.current + 2 > Len(s.source)
            THEN None
            ELSE Some(s.source[s.current + 2])
        scanner_advance(s) == [s EXCEPT !.current = @ + 1]
        match_lookahead(s, expected) ==
            ~scanner_is_at_end(s) /\ s.source[s.current + 1] = expected
        RECURSIVE Collect(_)
        Collect(chars) == IF chars = <<>> THEN "" ELSE Head(chars) \o Collect(Tail(chars))
        get_current_lexeme(s) == Collect(SubSeq(s.source, s.start + 1, s.current))
        add_token(s, token_type) ==
            [s EXCEPT !.tokens = Append(@, Token(token_type, get_current_lexeme(s), s.line))]
        add_error(s, message, lexeme) ==
            [s EXCEPT !.errors =
                Append(@, [line |-> s.line, message |-> message, lexeme |-> lexeme])]
        RECURSIVE skip_comment(_)
        skip_comment(s) ==
            IF scanner_peek(s) # Some("\n") /\ ~scanner_is_at_end(s)
            THEN skip_comment(scanner_advance(s))
            ELSE s
        RECURSIVE string_body(_)
        string_body(s) ==
            IF scanner_peek(s) # Some("\"") /\ ~scanner_is_at_end(s)
            THEN string_body(scanner_advance(
                     IF scanner_peek(s) = Some("\n") THEN [s EXCEPT !.line = @ + 1] ELSE s))
            ELSE s
        string_end(body) ==
            IF scanner_is_at_end(body)
            THEN add_error(body, "Unterminated string literal", None)
            ELSE add_token(scanner_advance(body), "String")
        scan_string(s) == string_end(string_body(s))
        RECURSIVE digits(_)
        digits(s) ==
            IF scanner_peek(s).tag = "Some" /\ is_digit(scanner_peek(s).value)
            THEN digits(scanner_advance(s))
            ELSE s
        fraction(whole) ==
            IF scanner_peek(whole) = Some(".") /\ peek_next(whole).tag = "Some"
               /\ is_digit(peek_next(whole).value)
            THEN digits(scanner_advance(whole))
            ELSE whole
        scan_number(s) == add_token(fraction(digits(s)), "Number")
        RECURSIVE identifier_body(_)
        identifier_body(s) ==
            IF scanner_peek(s).tag = "Some" /\ is_alphanumeric(scanner_peek(s).value)
            THEN identifier_body(scanner_advance(s))
            ELSE s
        keyword_or_identifier(body) == add_token(body, match_keyword(get_current_lexeme(body)))
        scan_identifier(s) == keyword_or_identifier(identifier_body(s))
        one_or_two(s, expected, two, one) ==
            IF match_lookahead(s, expected)
            THEN add_token(scanner_advance(s), two)
            ELSE add_token(s, one)
        arm(c, s) ==
            CASE c \in {"(", ")", "{", "}", ",", ".", "-", "+", ";", "*"} ->
                    add_token(s, TokenTypeOf(c))
              [] c = "!" -> one_or_two(s, "=", "BangEqual", "Bang")
              [] c = "=" -> one_or_two(s, "=", "EqualEqual", "Equal")
              [] c = "<" -> one_or_two(s, "=", "LessEqual", "Less")
              [] c = ">" -> one_or_two(s, "=", "GreaterEqual", "Greater")
              [] c = "/" -> IF match_lookahead(s, "/")
                            THEN skip_comment(scanner_advance(s))
                            ELSE add_token(s, "Slash")
              [] c \in {" ", "\r", "\t"} -> s
              [] c = "\"" -> scan_string(s)
              [] is_digit(c) -> scan_number(s)
              [] is_alpha(c) -> scan_identifier(s)
              [] c = "\n" -> [s EXCEPT !.line = @ + 1]
              [] OTHER -> add_error(s, "Unexpected character.", Some(c))
    IN  arm(s0.source[s0.current + 1], scanner_advance(s0))

\* Scanner::scan_tokens on Scanner::new(source): Ok(ScanResult) when there
\* are no errors and Err(ScanResult) when there are; the tokens are those
\* scan_token added
scan_tokens(source) ==
    LET RECURSIVE scan_loop(_)
        scan_loop(s) ==
            IF s.current < Len(s.source)
            THEN scan_loop(scan_token([s EXCEPT !.start = s.current]))
            ELSE s
        result_of(s) ==
            IF s.errors = <<>>
            THEN Ok([tokens |-> s.tokens, errors |-> s.errors])
            ELSE [tag |-> "Err", value |-> [tokens |-> s.tokens, errors |-> s.errors]]
    IN  result_of(scan_loop(Scanner(source)))

(***************************************************************************)
(* main.rs: run, the driver of one unit of source.                         *)
(***************************************************************************)
\* Interpreter::new: the interpreter's state before the first statement
NewInterpreter(now) ==
    [frames |-> define(<<new>>, globals, "clock", NativeFunction("clock", 0)),
     environment |-> globals, printed |-> <<>>, now |-> now]

\* interpreter.evaluate_statement(&env, stmt): the driver hands the statement
\* to the interpreter's execute
evaluate_statement(stmt, st) == execute(stmt, st)

\* the for loop of run over the statements, from the i-th on: it breaks at
\* the first error, which is printed; last is the value of the last
\* statement that succeeded
RECURSIVE run_statements(_, _, _, _)
run_statements(statements, i, st, last) ==
    IF i > Len(statements)
    THEN R(st, last)
    ELSE Match(evaluate_statement(statements[i], st), LAMBDA r :
             CASE r.res.tag = "Err" -> R(Println(r.st, r.res), last)
               [] r.res.tag = "Ok" ->
                    run_statements(statements, i + 1, r.st, Some(r.res.value))
               [] OTHER -> r)

\* run after the scan: the arm Ok(tokens) of the match on the scanner's result
run_tokens(tokens, st) ==
    Match(parse(tokens), LAMBDA statements :
        CASE statements.tag = "Ok" -> run_statements(statements.value, 1, st, None)
          [] statements.tag = "Err" -> R(Println(st, statements.errors), None)
          [] OTHER -> R(st, statements))

\* run(env, source): the scan, then the parse and the statements, or the
\* scanner's errors printed one after the other
run(source, now) ==
    Match(scan_tokens(source), LAMBDA tokens :
        IF tokens.tag = "Ok"
        THEN run_tokens(tokens.value.tokens, NewInterpreter(now))
        ELSE R([NewInterpreter(now) EXCEPT !.printed = @ \o tokens.value.errors], None))

\* run(env, source) as run_prompt calls it, line after line on the env that
\* main made once: st holds that environment as the session left it, and the
\* statements are evaluated in it
run_in(source, st) ==
    Match(scan_tokens(source), LAMBDA tokens :
        IF tokens.tag = "Ok"
        THEN run_tokens(tokens.value.tokens, st)
        ELSE R([st EXCEPT !.printed = @ \o tokens.value.errors], None))

\* println!("=> {}", value)
Echo(value) == [tag |-> "Echo", value |-> value]

\* the arm Ok(_) of run_prompt: the line is run and a value it returns is
\* printed after "=> "
run_prompt_line(source, st) ==
    Match(run_in(source, st), LAMBDA r :
        IF r.res.tag = "Some" THEN R(Println(r.st, Echo(r.res.value)), r.res) ELSE r)

(***************************************************************************)
(* expr.rs: the Debug rendering of an expression, and the Display of the   *)
(* literal in it.  The text is a string.                                   *)
(***************************************************************************)
\* the digits of the f64 Display after the point, for the remainder r of the
\* division by den: at most MaxDigits of them
MaxDigits == 17

RECURSIVE fraction_digits(_, _, _)
fraction_digits(r, den, k) ==
    IF r = 0 \/ k = 0
    THEN ""
    ELSE ToString((10 * r) \div den) \o fraction_digits((10 * r) % den, den, k - 1)

\* Display of f64: the shortest decimal text, without a point for a whole
\* number
fmt_f64(n) ==
    IF n.den = 0
    THEN IF n.num = 0 THEN "NaN" ELSE IF n.num > 0 THEN "inf" ELSE "-inf"
    ELSE IF n.den = 1
         THEN ToString(n.num)
         ELSE (IF n.num < 0 THEN "-" ELSE "") \o ToString(Abs(n.num) \div n.den) \o "."
              \o fraction_digits(Abs(n.num) % n.den, n.den, MaxDigits)

\* impl Display for Literal
fmt_literal(value) ==
    CASE value.type = "String" -> value.s
      [] value.type = "Number" -> fmt_f64(value)
      [] value.type = "Boolean" -> IF value.b THEN "true" ELSE "false"
      [] value.type = "Nil" -> "nil"
      [] value.type = "Function" -> "<native fn>"

RECURSIVE fmt(_), fmt_arguments(_, _)

\* fmt with the operands of Binary between its operator's sides
fmt_infix(expr) ==
    CASE expr.kind = "Binary" ->
           "(" \o fmt(expr.left) \o " " \o expr.operator.lexeme \o " " \o fmt(expr.right) \o ")"
      [] expr.kind = "Grouping" -> "(group " \o fmt(expr.expr) \o ")"
      [] expr.kind = "Literal" -> fmt_literal(expr.value)
      [] expr.kind = "Unary" -> "(" \o expr.operator.lexeme \o " " \o fmt(expr.right) \o ")"
      [] OTHER -> ""

\* impl Debug for Expr
fmt(expr) ==
    CASE expr.kind = "Binary" ->
           "(" \o expr.operator.lexeme \o " " \o fmt(expr.left) \o " " \o fmt(expr.right) \o ")"
      [] expr.kind = "Grouping" -> "(group " \o fmt(expr.expr) \o ")"
      [] expr.kind = "Literal" -> fmt_literal(expr.value)
      [] expr.kind = "Unary" -> "(" \o expr.operator.lexeme \o " " \o fmt(expr.right) \o ")"
      [] expr.kind = "Var" -> "(var " \o expr.identifier.lexeme \o ")"
      [] expr.kind = "Assign" ->
           "(assign " \o expr.identifier.lexeme \o " " \o fmt(expr.expr) \o ")"
      [] expr.kind = "Logical" ->
           "(" \o expr.operator.lexeme \o " " \o fmt(expr.left) \o " " \o fmt(expr.right) \o ")"
      [] expr.kind = "Call" ->
           "(" \o fmt(expr.callee) \o " \"" \o fmt_arguments(expr.arguments, 1) \o "\")"

\* the renderings of the arguments from the i-th on, joined by a space
fmt_arguments(args, i) ==
    IF i > Len(args)
    THEN ""
    ELSE fmt(args[i]) \o (IF i < Len(args) THEN " " ELSE "")
         \o fmt_arguments(args, i + 1)

(***************************************************************************)
(* SpecRun: the parser and the driver at work on whole units.  Parse calls *)
(* Parser::parse on a token stream, RunTokens the driver's run from the    *)
(* parse on, and Run the whole of run on a source text.  Every run makes   *)
(* its own interpreter; after a panic the next step is a new process.      *)
(***************************************************************************)
\* var x = 1; fun f() { print x; } { var x = 2; f(); }
ScopeProgram ==
    Lex(<<"var", "x", "=", "1", ";",
          "fun", "f", "(", ")", "{", "print", "x", ";", "}",
          "{", "var", "x", "=", "2", ";", "f", "(", ")", ";", "}">>)

\* fun g() { -nil; } { var y = 1; g(); } print 2;
FailingCallProgram ==
    Lex(<<"fun", "g", "(", ")", "{", "-", "nil", ";", "}",
          "{", "var", "y", "=", "1", ";", "g", "(", ")", ";", "}",
          "print", "2", ";">>)

\* fun f() { while (true) { if (true) { return 1; } } } print f();
NestedReturnProgram ==
    Lex(<<"fun", "f", "(", ")", "{", "while", "(", "true", ")", "{",
          "if", "(", "true", ")", "{", "return", "1", ";", "}", "}", "}",
          "print", "f", "(", ")", ";">>)

\* fun g() { return; } print g();
BareReturnProgram ==
    Lex(<<"fun", "g", "(", ")", "{", "return", ";", "}", "print", "g", "(", ")", ";">>)

\* fun make() { var n = 0; fun inc() { n = n + 1; return n; } return inc; }
\* var c = make(); print c(); print c(); var d = make(); print d();
CounterProgram ==
    Lex(<<"fun", "make", "(", ")", "{", "var", "n", "=", "0", ";",
          "fun", "inc", "(", ")", "{", "n", "=", "n", "+", "1", ";", "return", "n", ";", "}",
          "return", "inc", ";", "}",
          "var", "c", "=", "make", "(", ")", ";",
          "print", "c", "(", ")", ";", "print", "c", "(", ")", ";",
          "var", "d", "=", "make", "(", ")", ";", "print", "d", "(", ")", ";">>)

FunctionPrograms ==
    {ScopeProgram, FailingCallProgram, NestedReturnProgram, BareReturnProgram,
     CounterProgram}

\* Parser::parse on a token stream
Parse(tokens) ==
    /\ Idle
    /\ call' = [op |-> "parse", tokens |-> tokens]
    /\ result' = parse(tokens)
    /\ printed' = <<>>
    /\ UNCHANGED <<frames, environment>>

\* a run that returns r leaves the interpreter and what was printed
Returns(r, c) ==
    /\ Idle
    /\ r.res.tag # "Unfinished"
    /\ frames' = r.st.frames
    /\ environment' = r.st.environment
    /\ printed' = r.st.printed
    /\ result' = r.res
    /\ call' = c

\* run from the parse on, on a token stream ended by EOF
RunTokens(tokens, now) ==
    Returns(run_tokens(tokens, NewInterpreter(now)), [op |-> "run_tokens", tokens |-> tokens])

\* run on a source text
Run(source, now) == Returns(run(source, now), [op |-> "run", source |-> source])

\* the clauses of the for loops: initializer, condition and increment, each
\* present or absent (<<>>), and a body with which the loop ends
VarInit == <<"var", "i", "=", "0", ";">>

ForClauses ==
    {[init |-> VarInit, cond |-> c, incr |-> n] :
        c \in {<<>>, <<"false">>, <<"i", "<", "2">>},
        n \in {<<"i", "=", "i", "+", "1">>}}
    \cup {[init |-> VarInit, cond |-> c, incr |-> <<>>] : c \in {<<>>, <<"false">>}}
    \cup {[init |-> i, cond |-> c, incr |-> n] :
            i \in {<<>>, <<"nil", ";">>}, c \in {<<>>, <<"false">>},
            n \in {<<>>, <<"nil">>}}

BodyOf(c) ==
    IF c.cond = <<>>
    THEN IF c.init = VarInit /\ c.incr # <<>>
         THEN <<"if", "(", "i", "==", "1", ")", "stop", ";", "else", "print", "i", ";">>
         ELSE <<"print", "stop", ";">>
    ELSE IF c.init = VarInit THEN <<"print", "i", ";">> ELSE <<"print", "1", ";">>

\* for (init cond; incr) body
ForTokens(c) ==
    Lex(<<"for", "(">> \o (IF c.init = <<>> THEN <<";">> ELSE c.init)
        \o c.cond \o <<";">> \o c.incr \o <<")">> \o BodyOf(c))

\* { init while (cond) { body incr; } }, an absent condition read as true
ExpansionTokens(c) ==
    Lex(<<"{">> \o c.init
        \o <<"while", "(">> \o (IF c.cond = <<>> THEN <<"true">> ELSE c.cond) \o <<")">>
        \o <<"{">> \o BodyOf(c) \o (IF c.incr = <<>> THEN <<>> ELSE c.incr \o <<";">>)
        \o <<"}", "}">>)

ForPrograms == {ForTokens(c) : c \in ForClauses}

ExpansionPrograms == {ExpansionTokens(c) : c \in ForClauses}

\* the binary operators, assignment included
InfixLexemes == {"=", "or", "and", "==", "!=", "<", "<=", ">", ">=", "+", "-", "*", "/"}

\* a op1 b op2 c;
InfixStreams ==
    {Lex(<<"a", op1, "b", op2, "c", ";">>) :
        op1 \in InfixLexemes, op2 \in InfixLexemes \ {"="}}
    \cup {Lex(<<"a", "=", "b", "=", "c", ";">>)}

\* -a * b;  !a == b;  --a;  !-a;  -a();  a()();  (a + b) * c;
PrefixStreams ==
    {Lex(<<"-", "a", "*", "b", ";">>), Lex(<<"!", "a", "==", "b", ";">>),
     Lex(<<"-", "-", "a", ";">>), Lex(<<"!", "-", "a", ";">>),
     Lex(<<"-", "a", "(", ")", ";">>), Lex(<<"a", "(", ")", "(", ")", ";">>),
     Lex(<<"(", "a", "+", "b", ")", "*", "c", ";">>)}

\* print 1 + 2 * 3;  print 1 - 2 - 3;  print 2 * 3 + 1;  print -1 - -2;
ArithmeticPrograms ==
    {Lex(<<"print", "1", "+", "2", "*", "3", ";">>),
     Lex(<<"print", "1", "-", "2", "-", "3", ";">>),
     Lex(<<"print", "2", "*", "3", "+", "1", ";">>),
     Lex(<<"print", "-", "1", "-", "-", "2", ";">>)}

\* well-formed statements
WellFormed ==
    {<<"print", "1", ";">>, <<"var", "x", "=", "2", ";">>,
     <<"{", "print", "1", ";", "}">>,
     <<"if", "(", "true", ")", "print", "1", ";">>,
     <<"while", "(", "false", ")", "{", "print", "1", ";", "}">>}

\* malformed statements
Malformed ==
    {<<"var", "=", "1", ";">>, <<"print", ";">>, <<"1", "+", ";">>,
     <<"(", "1", ";">>, <<"print", "1", "2", ";">>}

\* units whose malformed statements are each followed by a well-formed one,
\* with the number of malformed statements
MalformedUnits ==
    {[tokens |-> Lex(b \o g), malformed |-> 1] : b \in Malformed, g \in WellFormed}
    \cup {[tokens |-> Lex(g \o b \o h), malformed |-> 1] :
             g \in {<<"print", "1", ";">>}, b \in Malformed, h \in WellFormed}
    \cup {[tokens |-> Lex(b \o g \o c \o <<"print", "1", ";">>), malformed |-> 2] :
             b \in Malformed, g \in WellFormed, c \in Malformed}

\* target = value;
AssignmentTargets ==
    {<<"a">>, <<"1">>, <<"(", "a", ")">>, <<"a", "+", "b">>, <<"a", "(", ")">>,
     <<"\"x\"">>, <<"!", "a">>}

AssignmentValues ==
    {<<"2">>, <<"2", "+", "3">>, <<"(", "b", ")">>, <<"b", "=", "2">>, <<"f", "(", "1", ")">>}

AssignmentStreams ==
    {Lex(t \o <<"=">> \o v \o <<";">>) : t \in AssignmentTargets, v \in AssignmentValues}

\* n parameter names separated by commas
ParameterList(n) == [i \in 1..(IF n = 0 THEN 0 ELSE 2 * n - 1) |-> IF i % 2 = 1 THEN "p" ELSE ","]

\* fun f(p, ..., p) { }
FunctionTokens(n) == Lex(<<"fun", "f", "(">> \o ParameterList(n) \o <<")", "{", "}">>)

ParameterCounts == {0, 1, 2, 254, 255, 256, 257}

\* units whose first statement is malformed, the tokens one to a line, with
\* the place of the token at which the grammar is not matched
FailingUnits ==
    {[tokens |-> TokensAt(u.lexemes, [i \in 1..Len(u.lexemes) |-> i]), at |-> u.at] :
        u \in {[lexemes |-> <<"print", ";">>, at |-> 2],
               [lexemes |-> <<"var", "=", "1", ";">>, at |-> 2],
               [lexemes |-> <<"var", "a", "1", ";">>, at |-> 3],
               [lexemes |-> <<"print", "(", "1", ";">>, at |-> 4],
               [lexemes |-> <<"print", "1", "+", ";">>, at |-> 4],
               [lexemes |-> <<"print", "1">>, at |-> 3],
               [lexemes |-> <<"1", "=", "2", ";">>, at |-> 2],
               [lexemes |-> <<"if", "true", ")", "print", "1", ";">>, at |-> 2],
               [lexemes |-> <<"{", "print", "1", ";">>, at |-> 5],
               [lexemes |-> <<"a", "(", "1", ";">>, at |-> 4],
               [lexemes |-> <<"fun", "(", ")", "{", "}">>, at |-> 2],
               [lexemes |-> <<"-", ";">>, at |-> 2],
               [lexemes |-> <<";">> \o <<"print", "1", ";">>, at |-> 1],
               [lexemes |-> <<")", "print", "1", ";">>, at |-> 1]}}

\* print 1; print 2;
SourcePrintPrint ==
    <<"p", "r", "i", "n", "t", " ", "1", ";", " ", "p", "r", "i", "n", "t", " ", "2", ";">>

\* print 1; print b; print 2;
SourcePrintFailPrint ==
    <<"p", "r", "i", "n", "t", " ", "1", ";", "\n",
      "p", "r", "i", "n", "t", " ", "b", ";", "\n",
      "p", "r", "i", "n", "t", " ", "2", ";">>

\* var a = 1; -nil; a = 2;
SourceVarFailAssign ==
    <<"v", "a", "r", " ", "a", " ", "=", " ", "1", ";", " ", "-", "n", "i", "l", ";", " ",
      "a", " ", "=", " ", "2", ";">>

\* print 1; print ;
SourcePrintMalformed ==
    <<"p", "r", "i", "n", "t", " ", "1", ";", " ", "p", "r", "i", "n", "t", " ", ";">>

\* print 1; @
SourceUnexpectedCharacter ==
    <<"p", "r", "i", "n", "t", " ", "1", ";", " ", "@">>

Sources ==
    {SourcePrintPrint, SourcePrintFailPrint, SourceVarFailAssign, SourcePrintMalformed,
     SourceUnexpectedCharacter, <<>>, <<";">>}

\* the same units as token streams ended by EOF
SequencePrograms ==
    {Lex(<<"print", "1", ";", "print", "2", ";">>),
     Lex(<<"print", "1", ";", "print", "b", ";", "print", "2", ";">>),
     Lex(<<"var", "a", "=", "1", ";", "-", "nil", ";", "a", "=", "2", ";">>),
     Lex(<<"print", "1", ";", "print", ";">>)}

\* "x" 1.5 // c
SourceStringNumberComment ==
    <<"\"", "x", "\"", " ", "1", ".", "5", " ", "/", "/", " ", "c", "\n">>

\* a <= b
SourceLessEqual == <<"a", " ", "<", "=", " ", "b">>

\* "x
SourceUnterminatedString == <<"\"", "x">>

\* the source texts scanned
ScanSources ==
    Sources \cup {SourceStringNumberComment, SourceLessEqual, SourceUnterminatedString}

\* the first two lines of run: Scanner::new(source) and scan_tokens()
Scan(source) ==
    /\ Idle
    /\ call' = [op |-> "scan_tokens", source |-> source]
    /\ result' = scan_tokens(source)
    /\ printed' = <<>>
    /\ UNCHANGED <<frames, environment>>

\* the lines of a session, each ended by the newline read_line keeps
LineVar == <<"v", "a", "r", " ", "a", " ", "=", " ", "1", ";", "\n">>

LinePrint == <<"p", "r", "i", "n", "t", " ", "a", ";", "\n">>

LineAssign == <<"a", " ", "=", " ", "2", ";", "\n">>

LineScanError == <<"@", "\n">>

LineSyntaxError == <<"p", "r", "i", "n", "t", " ", ";", "\n">>

LineRuntimeError == <<"-", "n", "i", "l", ";", "\n">>

LineSemicolon == <<";", "\n">>

ErrorLines == {LineScanError, LineSyntaxError, LineRuntimeError}

Lines == {LineVar, LinePrint, LineAssign, LineSemicolon} \cup ErrorLines

\* the lines one session reads at most
MaxLines == 3

\* the session after a line: the environment and what was printed are those
\* the line left, and a panic ends the process
Prompted(r, lines) ==
    /\ r.res.tag # "Unfinished"
    /\ frames' = r.st.frames
    /\ environment' = r.st.environment
    /\ printed' = r.st.printed
    /\ result' = r.res
    /\ call' = [op |-> "run_prompt", lines |-> lines]

\* run_prompt: one turn of the loop, read_line returning Ok(n) with n > 0
ReadLine(source, now) ==
    /\ \/ call.op = "new"
       \/ call.op = "run_prompt" /\ result.tag # "Panic" /\ Len(call.lines) < MaxLines
    /\ Prompted(run_prompt_line(source, [frames |-> frames, environment |-> environment,
                                         printed |-> printed, now |-> now]),
                IF call.op = "new" THEN <<source>> ELSE Append(call.lines, source))

\* the expressions rendered: literals, and groupings, unary and binary
\* expressions of them, one inside the other
FormatLiterals ==
    {Literal(Number(123)), Literal(Fraction(4567, 100)), Literal(Nil),
     Literal(Boolean(TRUE)), Literal(String("x"))}

FormatUnary ==
    {Unary(Token(op[1], op[2], 1), e) :
        op \in {<<"Minus", "-">>, <<"Bang", "!">>}, e \in FormatLiterals}

FormatGrouping == {Grouping(e) : e \in FormatLiterals}

FormatOperators == {Token("Star", "*", 1), Token("Plus", "+", 1)}

FormatExprs ==
    FormatLiterals \cup FormatUnary \cup FormatGrouping
    \cup {Binary(l, op, r) : l \in FormatLiterals, op \in FormatOperators,
                              r \in FormatLiterals}
    \cup {Binary(l, op, r) : l \in FormatUnary, op \in FormatOperators,
                              r \in FormatGrouping}
    \cup {Grouping(Unary(Token("Minus", "-", 1), g)) : g \in FormatGrouping}
    \cup {Var(Identifier("a")), Assign(Identifier("a"), Literal(Number(1))),
          Logical(Literal(Nil), Token("Or", "or", 1), Literal(Number(1))),
          Call(Var(Identifier("f")), Token("RightParen", ")", 1),
               <<Literal(Number(1)), Literal(Number(2))>>)}

\* format!("{:?}", expr)
Format(expr) ==
    /\ Idle
    /\ call' = [op |-> "fmt", expr |-> expr]
    /\ result' = Ok(fmt(expr))
    /\ printed' = <<>>
    /\ UNCHANGED <<frames, environment>>

\* units whose first statement is malformed, with the place of the token at
\* which the grammar is not matched
RecoveryUnits ==
    {[tokens |-> Lex(u.lexemes), at |-> u.at] :
        u \in {[lexemes |-> <<"print", ";">>, at |-> 2],
               [lexemes |-> <<"print", ";", "print", "1", ";", "print", "2", ";">>, at |-> 2],
               [lexemes |-> <<"var", "=", "1", ";", "print", "1", ";">>, at |-> 2],
               [lexemes |-> <<"print", ";", "print", ";">>, at |-> 2],
               [lexemes |-> <<"print", "1", "+", ";", "var", "x", "=", "2", ";">>, at |-> 4],
               [lexemes |-> <<"(", "1", ";", "if", "(", "true", ")", "print", "1", ";">>,
                at |-> 3],
               [lexemes |-> <<"print", "1", "2", ";", "print", "3", ";">>, at |-> 3],
               [lexemes |-> <<"{", "print", ";", "print", "1", ";", "}", "print", "2", ";">>,
                at |-> 3],
               [lexemes |-> <<"{", "{", "var", "=", "1", ";", "}", "}", "print", "2", ";">>,
                at |-> 4]}}

\* the first turn of the loop of Parser::parse on a token stream
ParseTurn(tokens) ==
    /\ Idle
    /\ call' = [op |-> "parse_turn", tokens |-> tokens]
    /\ result' = [tag |-> parse_turn(tokens).res.tag, current |-> parse_turn(tokens).p.current]
    /\ printed' = <<>>
    /\ UNCHANGED <<frames, environment>>

\* every stream of one to three of these tokens, ended by EOF
ShortLexemes == {"print", "var", "1", "a", ";", "-", ")", "{"}

ShortStreams == {Lex(s) : s \in UNION {[1..n -> ShortLexemes] : n \in 1..3}}

\* the token streams parsed
ParseStreams ==
    FunctionPrograms \cup ForPrograms \cup InfixStreams \cup PrefixStreams
    \cup {u.tokens : u \in MalformedUnits} \cup AssignmentStreams
    \cup {FunctionTokens(n) : n \in ParameterCounts} \cup {u.tokens : u \in FailingUnits}
    \cup {u.tokens : u \in RecoveryUnits} \cup ShortStreams

\* the token streams run
RunPrograms ==
    FunctionPrograms \cup ForPrograms \cup ExpansionPrograms \cup ArithmeticPrograms
    \cup SequencePrograms

\* main: the process ends with run_file, and the next unit is run in a new
\* process
Exit ==
    /\ call.op \notin {"new", "none"}
    /\ frames' = NewInterpreter(Nil).frames
    /\ environment' = globals
    /\ call' = [op |-> "new"]
    /\ result' = Unit
    /\ printed' = <<>>

NextRun ==
    \/ \E tokens \in ParseStreams : Parse(tokens)
    \/ \E u \in RecoveryUnits : ParseTurn(u.tokens)
    \/ \E tokens \in RunPrograms, now \in ClockReadings : RunTokens(tokens, now)
    \/ \E source \in ScanSources : Scan(source)
    \/ \E expr \in FormatExprs : Format(expr)
    \/ \E source \in Sources, now \in ClockReadings : Run(source, now)
    \/ \E source \in Lines, now \in ClockReadings : ReadLine(source, now)
    \/ Exit

SpecRun == Init /\ [][NextRun]_vars

(***************************************************************************)
(* Functions, return and closures (SpecRun).                               *)
(***************************************************************************)
\* a unit of FunctionPrograms has been run
Ran(tokens) == call.op = "run_tokens" /\ call.tokens = tokens

\* C11: the body of a user-defined function runs in a new frame around the
\* environment of its definition, not of its call, and the caller's
\* environment is current again after the call: with x = 1 global, f defined
\* at top level and called in a block that declares x = 2, f prints 1 and the
\* run ends in the global environment.
C11_CallUsesDefinitionEnvironment ==
    Ran(ScopeProgram) =>
        /\ result.tag # "Panic"
        /\ printed = <<Number(1)>>
        /\ environment = globals

\* C11: the unit that declares and calls f has been run
C11_FunctionDeclared ==
    /\ Ran(ScopeProgram)
    /\ parse(ScopeProgram).tag = "Ok"
    /\ parse(ScopeProgram).value[2].kind = "Function"

\* C12: a return in a function body, however deep in blocks and loops, ends
\* the call with its value (Nil without an expression) and the unit goes on;
\* any other error of the body is the error of the call.
C12_ReturnEndsCall ==
    /\ Ran(NestedReturnProgram) => (result.tag # "Panic" /\ printed = <<Number(1)>>)
    /\ Ran(BareReturnProgram) => (result.tag # "Panic" /\ printed = <<Nil>>)
    /\ Ran(FailingCallProgram) =>
          /\ result.tag # "Panic"
          /\ Len(printed) = 1
          /\ printed[1].tag = "Err"
          /\ printed[1].detail = "ExpectedNumber"

\* C12: a unit whose function body holds a return has been parsed into a
\* Function statement and run
C12_ReturnInBody ==
    /\ Ran(BareReturnProgram)
    /\ parse(BareReturnProgram).tag = "Ok"
    /\ parse(BareReturnProgram).value[1].body[1].kind = "Return"

\* C13: the frame a closure captured is shared by its calls and is not that
\* of another instance: two calls of one counter print 1 and 2, the first
\* call of a second counter prints 1.
C13_CounterKeepsState ==
    Ran(CounterProgram) =>
        /\ result.tag # "Panic"
        /\ printed = <<Number(1), Number(2), Number(1)>>

\* C13: the unit with the two counters has been run
C13_CountersRun ==
    /\ Ran(CounterProgram)
    /\ parse(CounterProgram).tag = "Ok"
    /\ Len(parse(CounterProgram).value) = 6

(***************************************************************************)
(* The for loop (SpecRun).                                                 *)
(***************************************************************************)
\* C14: for (init; cond; incr) body runs as { init; while (cond) { body;
\* incr; } } does, an absent condition being true: what is printed, what
\* run returns and the frames left are the same, for every combination of
\* present and absent clauses.
C14_ForRunsAsItsExpansion ==
    \A c \in ForClauses :
        Ran(ForTokens(c)) =>
            /\ printed = run_tokens(ExpansionTokens(c), NewInterpreter(Nil)).st.printed
            /\ result = run_tokens(ExpansionTokens(c), NewInterpreter(Nil)).res
            /\ frames = run_tokens(ExpansionTokens(c), NewInterpreter(Nil)).st.frames

\* C14: for (; false;) print 1; has been run
C14_ForWithoutInitializer ==
    /\ Ran(ForTokens([init |-> <<>>, cond |-> <<"false">>, incr |-> <<>>]))
    /\ result.tag # "Panic"

(***************************************************************************)
(* Precedence and associativity (SpecRun).                                 *)
(***************************************************************************)
\* a token stream has been parsed
Parsed(tokens) == call.op = "parse" /\ call.tokens = tokens

\* how tightly an operator binds, from assignment, the loosest, to * and /
Level(op) ==
    CASE op = "=" -> 1
      [] op = "or" -> 2
      [] op = "and" -> 3
      [] op \in {"==", "!="} -> 4
      [] op \in {"<", "<=", ">", ">="} -> 5
      [] op \in {"+", "-"} -> 6
      [] op \in {"*", "/"} -> 7

\* the expression of one operator and its operands
Node(left, op, right) ==
    IF op = "="
    THEN Assign(left.identifier, right)
    ELSE IF op \in {"or", "and"}
         THEN Logical(left, Token(TokenTypeOf(op), op, 1), right)
         ELSE Binary(left, Token(TokenTypeOf(op), op, 1), right)

\* the tree of a op1 b op2 c: the tighter operator is the deeper one, equal
\* levels nest to the left, assignments to the right
Tree(op1, op2) ==
    IF Level(op2) > Level(op1) \/ (op1 = "=" /\ op2 = "=")
    THEN Node(Var(Identifier("a")), op1, Node(Var(Identifier("b")), op2, Var(Identifier("c"))))
    ELSE Node(Node(Var(Identifier("a")), op1, Var(Identifier("b"))), op2, Var(Identifier("c")))

\* the trees of the units of PrefixStreams
PrefixTree(tokens) ==
    LET a == Var(Identifier("a"))
        b == Var(Identifier("b"))
        c == Var(Identifier("c"))
        minus == Token("Minus", "-", 1)
        bang == Token("Bang", "!", 1)
        paren == Token("RightParen", ")", 1)
    IN  CASE tokens = Lex(<<"-", "a", "*", "b", ";">>) ->
                Binary(Unary(minus, a), Token("Star", "*", 1), b)
          [] tokens = Lex(<<"!", "a", "==", "b", ";">>) ->
                Binary(Unary(bang, a), Token("EqualEqual", "==", 1), b)
          [] tokens = Lex(<<"-", "-", "a", ";">>) -> Unary(minus, Unary(minus, a))
          [] tokens = Lex(<<"!", "-", "a", ";">>) -> Unary(bang, Unary(minus, a))
          [] tokens = Lex(<<"-", "a", "(", ")", ";">>) -> Unary(minus, Call(a, paren, <<>>))
          [] tokens = Lex(<<"a", "(", ")", "(", ")", ";">>) ->
                Call(Call(a, paren, <<>>), paren, <<>>)
          [] tokens = Lex(<<"(", "a", "+", "b", ")", "*", "c", ";">>) ->
                Binary(Grouping(Binary(a, Token("Plus", "+", 1), b)),
                       Token("Star", "*", 1), c)

\* C15: operators bind from assignment, the loosest, through or, and,
\* equality, comparison, term and factor to unary, call and primary; binary
\* operators of one level nest to the left, unary operators and assignment
\* to the right; 1 + 2 * 3 is 7 and 1 - 2 - 3 is -4.
C15_PrecedenceAndAssociativity ==
    /\ \A op1 \in InfixLexemes, op2 \in InfixLexemes :
          (Lex(<<"a", op1, "b", op2, "c", ";">>) \in InfixStreams
             /\ Parsed(Lex(<<"a", op1, "b", op2, "c", ";">>))) =>
                result = Ok(<<Expression(Tree(op1, op2))>>)
    /\ \A tokens \in PrefixStreams :
          Parsed(tokens) => result = Ok(<<Expression(PrefixTree(tokens))>>)
    /\ Ran(Lex(<<"print", "1", "+", "2", "*", "3", ";">>)) => printed = <<Number(7)>>
    /\ Ran(Lex(<<"print", "1", "-", "2", "-", "3", ";">>)) => printed = <<Number(-4)>>
    /\ Ran(Lex(<<"print", "2", "*", "3", "+", "1", ";">>)) => printed = <<Number(7)>>
    /\ Ran(Lex(<<"print", "-", "1", "-", "-", "2", ";">>)) => printed = <<Number(1)>>

\* C15: a - b - c has been parsed into a tree
C15_SameLevelParsed ==
    /\ Parsed(Lex(<<"a", "-", "b", "-", "c", ";">>))
    /\ result.tag = "Ok"
    /\ result.value[1].expr.kind = "Binary"

(***************************************************************************)
(* Syntax errors (SpecRun).                                                *)
(***************************************************************************)
\* C16: parse goes on after a malformed statement and reports every syntax
\* error: when each malformed statement is followed by a well-formed one,
\* the errors returned are as many as the malformed statements.
C16_OneErrorPerMalformedStatement ==
    \A u \in MalformedUnits :
        Parsed(u.tokens) =>
            /\ result.tag = "Err"
            /\ Len(result.errors) = u.malformed

\* C16: var = 1; { print 1; } print ; print 1; has been parsed and errors
\* were returned
C16_TwoMalformedParsed ==
    /\ Parsed(Lex(<<"var", "=", "1", ";", "{", "print", "1", ";", "}",
                    "print", ";", "print", "1", ";">>))
    /\ result.tag = "Err"

\* C17: target = value with a target that is not a bare variable is a syntax
\* error whose token is the = token, whatever well-formed value follows; with
\* a bare variable it is the assignment of the value to the variable.
C17_InvalidTargetReportsEqual ==
    \A t \in AssignmentTargets, v \in AssignmentValues :
        Parsed(Lex(t \o <<"=">> \o v \o <<";">>)) =>
            IF t = <<"a">>
            THEN /\ result.tag = "Ok"
                 /\ result.value[1].expr.kind = "Assign"
                 /\ result.value[1].expr.identifier = Identifier("a")
                 /\ result.value[1].expr.expr = parse(Lex(v \o <<";">>)).value[1].expr
            ELSE /\ result.tag = "Err"
                 /\ result.errors[1].kind = "SyntaxError"
                 /\ result.errors[1].detail = "Invalid assignment target."
                 /\ result.errors[1].token = Token("Equal", "=", 1)

\* C17: 1 = 2 + 3; has been parsed and rejected
C17_LiteralTargetRejected ==
    /\ Parsed(Lex(<<"1", "=", "2", "+", "3", ";">>))
    /\ result.tag = "Err"
    /\ result.errors[1].detail = "Invalid assignment target."

\* C18: a function declaration with n parameters is accepted for every n from
\* 0 to 255 inclusive, with its n parameters in order, and is rejected with a
\* syntax error for every n above 255.
C18_AtMost255Parameters ==
    \A n \in ParameterCounts :
        Parsed(FunctionTokens(n)) =>
            IF n <= 255
            THEN /\ result.tag = "Ok"
                 /\ result.value[1].kind = "Function"
                 /\ Len(result.value[1].params) = n
            ELSE /\ result.tag = "Err"
                 /\ result.errors[1].kind = "SyntaxError"

\* C18: a declaration with exactly 255 parameters has been parsed
C18_Parsed255Parameters ==
    /\ Parsed(FunctionTokens(255))
    /\ result.tag \in {"Ok", "Err"}

\* C19: every syntax error the parser returns carries the token at which the
\* grammar was not matched, the token not yet consumed when the parse failed,
\* and that token's line; also the 'Expected expression' of primary, and also
\* when the unexpected token is the first of the stream.
C19_ErrorCarriesCurrentToken ==
    \A u \in FailingUnits :
        Parsed(u.tokens) =>
            /\ result.tag = "Err"
            /\ result.errors[1].kind = "SyntaxError"
            /\ result.errors[1].token = u.tokens[u.at]
            /\ result.errors[1].line = u.tokens[u.at].line

\* C19: print ; has been parsed and primary has reported its error
C19_ExpectedExpressionReported ==
    /\ Parsed(TokensAt(<<"print", ";">>, <<1, 2>>))
    /\ result.tag = "Err"
    /\ result.errors[1].detail = "Expected expression"

\* run has been called on a source text
RanSource(source) == call.op = "run" /\ call.source = source

\* C20: the driver's run of one unit executes the statements in order and
\* stops at the first that returns a runtime error: print 1; print 2; prints
\* 1 then 2; print 1; print b; print 2; prints 1 and the error and not 2;
\* var a = 1; -nil; a = 2; leaves a at 1; and print 1; print ; with its syntax
\* error executes nothing and prints the errors of the parse only.
C20_RunStopsAtFirstError ==
    /\ RanSource(SourcePrintPrint) =>
           /\ result = Some(Nil)
           /\ printed = <<Number(1), Number(2)>>
    /\ RanSource(SourcePrintFailPrint) =>
           /\ Len(printed) = 2
           /\ printed[1] = Number(1)
           /\ printed[2].tag = "Err"
           /\ printed[2].kind = "RuntimeError"
    /\ RanSource(SourceVarFailAssign) =>
           /\ Len(printed) = 1
           /\ printed[1].tag = "Err"
           /\ fetch(frames, environment, "a") = Some(Number(1))
    /\ RanSource(SourcePrintMalformed) =>
           /\ result = None
           /\ Len(printed) = 1
           /\ \A i \in 1..Len(printed[1]) : printed[1][i].kind = "SyntaxError"

\* C20: run has returned or panicked on print 1; print b; print 2;
C20_FailingUnitRun ==
    /\ RanSource(SourcePrintFailPrint)
    /\ result.tag \in {"Some", "None", "Panic"}

\* scan_tokens has been called on a source text
Scanned(source) == call.op = "scan_tokens" /\ call.source = source

\* C22: for every source text the tokens scan_tokens produces end with an
\* EOF token, the only one of the sequence, and the tokens of the empty
\* source are the one-token stream that Parser::parse turns into a single
\* expression statement of nil.
C22_TokensEndWithEOF ==
    \A source \in ScanSources :
        Scanned(source) =>
            /\ Len(result.value.tokens) >= 1
            /\ result.value.tokens[Len(result.value.tokens)].token_type = "EOF"
            /\ \A i \in 1..(Len(result.value.tokens) - 1) :
                   result.value.tokens[i].token_type # "EOF"
            /\ source = <<>> =>
                   parse(result.value.tokens) = Ok(<<Expression(Literal(Nil))>>)

\* C22: print 1; print 2; has been scanned without errors
C22_SourceScanned ==
    /\ Scanned(SourcePrintPrint)
    /\ result.tag = "Ok"
    /\ Len(result.value.tokens) >= 6

\* run_prompt has read these lines, one after the other
Session(lines) == call.op = "run_prompt" /\ call.lines = lines

\* C21: in a session the global bindings persist from line to line, also
\* past a line with a scan, syntax or runtime error, and the loop goes on
\* after an error: after var a = 1; the session is alive with a = 1, a later
\* print a; prints 1 and a later a = 2; leaves a = 2, with or without a
\* failing line in between, and a failing line leaves the session alive.
C21_BindingsPersistInSession ==
    /\ \A e \in ErrorLines : Session(<<e>>) => result.tag # "Panic"
    /\ \A between \in {<<>>} \cup {<<e>> : e \in ErrorLines} :
        /\ Session(<<LineVar>> \o between) =>
               /\ result.tag # "Panic"
               /\ fetch(frames, environment, "a") = Some(Number(1))
        /\ Session(<<LineVar>> \o between \o <<LinePrint>>) =>
               /\ result.tag # "Panic"
               /\ \E i \in 1..Len(printed) : printed[i] = Number(1)
        /\ Session(<<LineVar>> \o between \o <<LineAssign>>) =>
               /\ result.tag # "Panic"
               /\ fetch(frames, environment, "a") = Some(Number(2))

\* C21: a session has read var a = 1; as its first line
C21_VarLineRead ==
    /\ Session(<<LineVar>>)
    /\ result.tag \in {"Some", "None", "Panic"}

\* an expression has been rendered
Formatted(expr) == call.op = "fmt" /\ call.expr = expr

\* the text of a literal's value
ValueText(value) ==
    CASE value = Number(123) -> "123"
      [] value = Fraction(4567, 100) -> "45.67"
      [] value = Nil -> "nil"
      [] value = Boolean(TRUE) -> "true"
      [] value = String("x") -> "x"

\* the fully parenthesised prefix form of an expression
RECURSIVE PrefixForm(_)
PrefixForm(expr) ==
    CASE expr.kind = "Literal" -> ValueText(expr.value)
      [] expr.kind = "Grouping" -> "(group " \o PrefixForm(expr.expr) \o ")"
      [] expr.kind = "Unary" ->
           "(" \o expr.operator.lexeme \o " " \o PrefixForm(expr.right) \o ")"
      [] expr.kind = "Binary" ->
           "(" \o expr.operator.lexeme \o " " \o PrefixForm(expr.left) \o " "
           \o PrefixForm(expr.right) \o ")"

\* C23: the rendering of an expression is its fully parenthesised prefix
\* form: a literal is its value, Grouping(e) is (group e), Unary(op, e) is
\* (op e) and Binary(l, op, r) is (op l r), so that
\* Binary(Unary(-, 123), *, Grouping(45.67)) is (* (- 123) (group 45.67)).
C23_RenderingIsPrefixForm ==
    /\ \A expr \in FormatExprs :
           Formatted(expr) /\ expr.kind \in {"Literal", "Grouping", "Unary", "Binary"} =>
               result = Ok(PrefixForm(expr))
    /\ Formatted(Binary(Unary(Token("Minus", "-", 1), Literal(Number(123))),
                        Token("Star", "*", 1), Grouping(Literal(Fraction(4567, 100))))) =>
           result = Ok("(* (- 123) (group 45.67))")

\* C23: Binary(Unary(-, 123), *, Grouping(45.67)) has been rendered
C23_BinaryRendered ==
    /\ Formatted(Binary(Unary(Token("Minus", "-", 1), Literal(Number(123))),
                        Token("Star", "*", 1), Grouping(Literal(Fraction(4567, 100)))))
    /\ result.tag = "Ok"

\* the first turn of the parse of a unit has been made
Turned(tokens) == call.op = "parse_turn" /\ call.tokens = tokens

\* the token at place r starts a statement: the one before it is a
\* semicolon, or it is one of the keywords or the end of the stream
StatementBoundary(tokens, r) ==
    \/ tokens[r - 1].token_type = "Semicolon"
    \/ tokens[r].token_type \in
           {"Class", "Fun", "Var", "For", "If", "While", "Print", "Return", "EOF"}

\* the first statement boundary that follows the token at place at
FirstBoundary(tokens, at) ==
    CHOOSE r \in (at + 1)..Len(tokens) :
        /\ StatementBoundary(tokens, r)
        /\ \A q \in (at + 1)..(r - 1) : ~StatementBoundary(tokens, q)

\* C24: after a syntax error the tokens are discarded up to the first
\* statement boundary that follows the failing token and no further, at top
\* level and inside blocks: the next turn of the parse starts with the token
\* at that boundary, and of two malformed statements one after the other
\* both are reported.
C24_ResumesAtFirstBoundary ==
    /\ \A u \in RecoveryUnits :
           Turned(u.tokens) =>
               /\ result.tag = "Err"
               /\ result.current + 1 = FirstBoundary(u.tokens, u.at)
    /\ Parsed(Lex(<<"print", ";", "print", ";">>)) =>
           /\ result.tag = "Err"
           /\ Len(result.errors) = 2

\* C24: the first turn on print ; print 1; print 2; has failed and recovered
C24_RecoveredAfterError ==
    /\ Turned(Lex(<<"print", ";", "print", "1", ";", "print", "2", ";">>))
    /\ result.tag = "Err"

\* C25: Parser::parse is total on every token stream ended by one EOF token:
\* it returns, without indexing the tokens outside their range, either the
\* statements and no error or a list of errors that is not empty.
C25_ParseIsTotal ==
    call.op = "parse" =>
        \/ result.tag = "Ok"
        \/ result.tag = "Err" /\ result.errors # <<>>

\* C25: a stream that starts with a semicolon has been parsed
C25_SemicolonFirstParsed ==
    /\ Parsed(Lex(<<";", "print", "1">>))
    /\ result.tag \in {"Ok", "Err", "Panic"}

=============================================================================
